---- MODULE Spec2Model ----
(***************************************************************************)
(* Model of the recipe extractor: the static recipe analyzer               *)
(* (recipe_parser.py), URL normalisation/classification (utils.py), the    *)
(* ingestion layer (db.py), the extraction pass (extract_sources.py) and   *)
(* the fetch pass (fetch_news.py, rss_fallback.py).                        *)
(*                                                                         *)
(* Text is a sequence of one-character strings; SQL NULL / Python None in  *)
(* a text position is the one-element sequence NULL, which no text equals. *)
(* Timestamps are readings of an integer clock; confidences are in         *)
(* hundredths.                                                             *)
(***************************************************************************)
EXTENDS Integers, Sequences, FiniteSets, TLC

VARIABLES
    recipes,            \* sources.db: table recipes, as seen by the open connection
    endpoints,          \* sources.db: table endpoints
    recipe_endpoints,   \* sources.db: table recipe_endpoints
    sources_durable,    \* sources.db: the committed tables
    runs,               \* news.db: table runs, as seen by the open connection
    articles,           \* news.db: table articles
    news_durable,       \* news.db: the committed tables
    clock,              \* number of readings of now_utc_iso() so far
    pc,                 \* position of the running process
    corpus,             \* the *.recipe documents of the recipes directory, sorted
    idx,                \* loop index of the running pass
    cur,                \* locals of the loop iteration in flight
    done,               \* what the running pass has completed (history)
    lastOp,             \* the operation performed by the last step (history)
    latest,             \* recipe_uid -> the most recent payload upserted (history, kept by SpecDb)
    foldNode,           \* evaluator under test: the node
    foldEnv,            \* evaluator under test: the environment
    foldResult,         \* evaluator under test: the outcome
    call,               \* function under test: its name and arguments
    result              \* function under test: what it returned

vars == <<recipes, endpoints, recipe_endpoints, sources_durable, runs, articles,
          news_durable, clock, pc, corpus, idx, cur, done, lastOp, latest,
          foldNode, foldEnv, foldResult, call, result>>

----------------------------------------------------------------------------
(* Text helpers *)

NULL == <<"NULL">>

Whitespace == {" ", "\t", "\n"}

UpperCase == <<"A","B","C","D","E","F","G","H","I","J","K","L","M",
               "N","O","P","Q","R","S","T","U","V","W","X","Y","Z">>

LowerCase == <<"a","b","c","d","e","f","g","h","i","j","k","l","m",
               "n","o","p","q","r","s","t","u","v","w","x","y","z">>

LowerChar(c) ==
    IF \E i \in 1..26 : UpperCase[i] = c
    THEN LowerCase[CHOOSE i \in 1..26 : UpperCase[i] = c]
    ELSE c

\* str.lower()
Lower(s) == [i \in 1..Len(s) |-> LowerChar(s[i])]

RECURSIVE LStrip(_, _)
\* str.lstrip(chars)
LStrip(s, chars) ==
    IF s # <<>> /\ Head(s) \in chars THEN LStrip(Tail(s), chars) ELSE s

RECURSIVE RStrip(_, _)
\* str.rstrip(chars)
RStrip(s, chars) ==
    IF s # <<>> /\ s[Len(s)] \in chars
    THEN RStrip(SubSeq(s, 1, Len(s) - 1), chars)
    ELSE s

\* str.strip(chars)
Strip(s, chars) == RStrip(LStrip(s, chars), chars)

\* str.startswith(prefix)
StartsWith(s, prefix) ==
    Len(s) >= Len(prefix) /\ SubSeq(s, 1, Len(prefix)) = prefix

\* sub in s
Contains(s, sub) ==
    \E i \in 1..(Len(s) - Len(sub) + 1) : SubSeq(s, i, i + Len(sub) - 1) = sub

RECURSIVE Join(_, _)
\* sep.join(parts)
Join(sep, parts) ==
    IF parts = <<>> THEN <<>>
    ELSE IF Len(parts) = 1 THEN parts[1]
    ELSE parts[1] \o sep \o Join(sep, Tail(parts))

RECURSIVE Concat(_)
\* "".join(parts)
Concat(parts) == IF parts = <<>> THEN <<>> ELSE Head(parts) \o Concat(Tail(parts))

Letters == {UpperCase[i] : i \in 1..26} \cup {LowerCase[i] : i \in 1..26}

\* s.find(c): first position of a character of cs in s, 0 if none
FindAny(s, cs) ==
    IF \E i \in 1..Len(s) : s[i] \in cs
    THEN CHOOSE i \in 1..Len(s) : s[i] \in cs /\ \A j \in 1..(i - 1) : s[j] \notin cs
    ELSE 0

\* Python truthiness of an optional text: None and "" are falsy
Truthy(s) == s # NULL /\ s # <<>>

----------------------------------------------------------------------------
(* utils.py *)

SRC_FEEDS == <<"f","e","e","d","s">>
SRC_LITERAL == <<"l","i","t","e","r","a","l">>
SRC_ATTR == <<"a","t","t","r">>

T_FEED == <<"f","e","e","d">>
T_API == <<"a","p","i">>
T_HTML == <<"h","t","m","l">>

FEED_SCHEME == <<"f","e","e","d",":","/","/">>
HTTP_SCHEME == <<"h","t","t","p",":","/","/">>
HTTPS_SCHEME == <<"h","t","t","p","s",":","/","/">>

QuoteChars == {"'", "\""}
TrailingChars == {")", "]", ">", ".", ",", ";", "\"", "'", " "}

\* normalize_url(raw): None is NULL
normalize_url(raw) ==
    LET r1 == Strip(Strip(raw, Whitespace), QuoteChars)
        r2 == RStrip(r1, TrailingChars)
    IN  IF r1 = <<>> THEN NULL
        ELSE IF StartsWith(r2, FEED_SCHEME)
             THEN HTTP_SCHEME \o SubSeq(r2, Len(FEED_SCHEME) + 1, Len(r2))
             ELSE r2

FeedMarkers == { <<"/","r","s","s">>, <<".","r","s","s">>, <<"/","a","t","o","m">>,
                 <<".","a","t","o","m">>, <<".","x","m","l">> }
ApiMarkers == { <<"/","a","p","i","/">>, <<".","j","s","o","n">>, <<"a","p","i",".">> }

\* the rules with the api markers tried before the feed markers
classify_url_api_first(url, source, attr_name) ==
    LET u == Lower(url)
    IN  IF source = SRC_FEEDS \/ (Truthy(attr_name) /\ Contains(Lower(attr_name), T_FEED))
        THEN T_FEED
        ELSE IF \E x \in ApiMarkers : Contains(u, x) THEN T_API
        ELSE IF \E x \in FeedMarkers : Contains(u, x) THEN T_FEED
        ELSE T_HTML

\* classify_url(url, source, attr_name)
classify_url(url, source, attr_name) ==
    LET u == Lower(url)
    IN  IF source = SRC_FEEDS \/ (Truthy(attr_name) /\ Contains(Lower(attr_name), T_FEED))
        THEN T_FEED
        ELSE IF \E x \in FeedMarkers : Contains(u, x) THEN T_FEED
        ELSE IF \E x \in ApiMarkers : Contains(u, x) THEN T_API
        ELSE T_HTML

\* EndpointHit(url, url_type, source, context, feed_title, raw_url, confidence)
EndpointHit(url, url_type, source, context, feed_title, raw_url, confidence) ==
    [url |-> url, url_type |-> url_type, source |-> source, context |-> context,
     feed_title |-> feed_title, raw_url |-> raw_url, confidence |-> confidence]

UrlStopChars == Whitespace \cup {"'", "\"", "<", ">"}

\* length of the scheme the pattern accepts at position i of text, 0 if none
SchemeLenAt(text, i) ==
    LET rest == SubSeq(text, i, Len(text))
    IN  IF StartsWith(rest, HTTPS_SCHEME) THEN Len(HTTPS_SCHEME)
        ELSE IF StartsWith(rest, HTTP_SCHEME) THEN Len(HTTP_SCHEME)
        ELSE IF StartsWith(rest, FEED_SCHEME) THEN Len(FEED_SCHEME)
        ELSE 0

\* last position of the run [^\s'"<>]* starting at position i (i - 1 if empty)
BodyEnd(text, i) ==
    (CHOOSE j \in i..(Len(text) + 1) :
        /\ j > Len(text) \/ text[j] \in UrlStopChars
        /\ \A k \in i..(j - 1) : text[k] \notin UrlStopChars) - 1

\* whether the pattern matches at position i
MatchesAt(text, i) ==
    SchemeLenAt(text, i) > 0 /\ BodyEnd(text, i + SchemeLenAt(text, i)) >= i + SchemeLenAt(text, i)

RECURSIVE FindUrlsFrom(_, _)
\* the matches starting at position i or later
FindUrlsFrom(text, i) ==
    LET starts == {k \in i..Len(text) : MatchesAt(text, k)}
    IN  IF starts = {} THEN <<>>
        ELSE LET k == CHOOSE m \in starts : \A n \in starts : m <= n
                 e == BodyEnd(text, k + SchemeLenAt(text, k))
             IN  <<SubSeq(text, k, e)>> \o FindUrlsFrom(text, e + 1)

\* find_urls_in_text(text): re.findall, leftmost non-overlapping matches
find_urls_in_text(text) == FindUrlsFrom(text, 1)

\* html.entities.html5, restricted to the names that occur in the modelled texts
\* ("xAE" is the registered sign): the legacy names are there with and without ";"
Html5 ==
    { [name |-> <<"a","m","p",";">>, char |-> "&"], [name |-> <<"a","m","p">>, char |-> "&"],
      [name |-> <<"l","t",";">>, char |-> "<"], [name |-> <<"l","t">>, char |-> "<"],
      [name |-> <<"g","t",";">>, char |-> ">"], [name |-> <<"g","t">>, char |-> ">"],
      [name |-> <<"r","e","g",";">>, char |-> "xAE"], [name |-> <<"r","e","g">>, char |-> "xAE"] }

InHtml5(s) == \E e \in Html5 : e.name = s
Html5Of(s) == (CHOOSE e \in Html5 : e.name = s).char

CharrefStop == {"\t", "\n", " ", "<", "&", "#", ";"}

\* what the pattern &([^\t\n\f <&#;]{1,32};?) captures at the "&" of position i,
\* <<>> when it does not match (numeric references are not modelled: the texts
\* hold none)
CharrefAt(text, i) ==
    LET run == CHOOSE n \in 0..32 :
                  /\ \A k \in 1..n : i + k <= Len(text) /\ text[i + k] \notin CharrefStop
                  /\ (n = 32 \/ i + n + 1 > Len(text) \/ text[i + n + 1] \in CharrefStop)
        semi == IF i + run + 1 <= Len(text) /\ text[i + run + 1] = ";" THEN 1 ELSE 0
    IN  IF run = 0 THEN <<>> ELSE SubSeq(text, i + 1, i + run + semi)

\* html._replace_charref for a named reference: the name, else its longest prefix
\* of two characters or more that is a name, else the text as it was
ReplaceCharref(s) ==
    IF InHtml5(s) THEN <<Html5Of(s)>>
    ELSE LET xs == {x \in 2..(Len(s) - 1) : InHtml5(SubSeq(s, 1, x))}
         IN  IF xs = {} THEN <<"&">> \o s
             ELSE LET x == CHOOSE m \in xs : \A n \in xs : n <= m
                  IN  <<Html5Of(SubSeq(s, 1, x))>> \o SubSeq(s, x + 1, Len(s))

RECURSIVE UnescapeFrom(_, _)
\* _charref.sub(_replace_charref, s) from position i on
UnescapeFrom(text, i) ==
    LET amps == {k \in i..Len(text) : text[k] = "&"}
    IN  IF amps = {} THEN SubSeq(text, i, Len(text))
        ELSE LET k == CHOOSE m \in amps : \A n \in amps : m <= n
                 s == CharrefAt(text, k)
             IN  SubSeq(text, i, k - 1)
                 \o (IF s = <<>> THEN <<"&">> ELSE ReplaceCharref(s))
                 \o UnescapeFrom(text, k + 1 + Len(s))

\* decode_html_entities(text): html.unescape
decode_html_entities(text) ==
    IF \A i \in 1..Len(text) : text[i] # "&" THEN text ELSE UnescapeFrom(text, 1)

----------------------------------------------------------------------------
(* Python values of the analyzer.  A value is a record tagged by its type:      *)
(* str/bytes/int/float/bool/other carry their text s (for int, float, bool and *)
(* other, the text str() gives), list/tuple carry their items; VNone is None,  *)
(* which the analyzer also uses as "Unknown".  An exception leaving a function *)
(* is the outcome Raised(type).                                                *)

VStr(s) == [t |-> "str", s |-> s]
VBytes(s) == [t |-> "bytes", s |-> s]
VInt(s) == [t |-> "int", s |-> s]
VFloat(s) == [t |-> "float", s |-> s]
VBool(s) == [t |-> "bool", s |-> s]
VOther(s) == [t |-> "other", s |-> s]
VList(items) == [t |-> "list", items |-> items]
VTuple(items) == [t |-> "tuple", items |-> items]
VNone == [t |-> "None"]
Raised(exc) == [t |-> "raise", exc |-> exc]
\* a dict returned by a function that may raise instead
Dict(d) == [t |-> "dict", d |-> d]

IsRaise(v) == v.t = "raise"
IsSeqVal(v) == v.t \in {"list", "tuple"}

\* a byte that is not valid UTF-8, and what decode("utf-8", "replace") makes of it
BadByte == "xFF"
ReplacementChar == "uFFFD"

\* bytes.decode("utf-8", "replace")
decode_replace(s) == [i \in 1..Len(s) |-> IF s[i] = BadByte THEN ReplacementChar ELSE s[i]]

\* the quote repr() picks for a text, and the text escaped for it
ReprQuote(s) ==
    IF (\E i \in 1..Len(s) : s[i] = "'") /\ ~(\E i \in 1..Len(s) : s[i] = "\"")
    THEN "\"" ELSE "'"

RECURSIVE ReprEscape(_, _)
ReprEscape(s, q) ==
    IF s = <<>> THEN <<>>
    ELSE (IF Head(s) = q \/ Head(s) = "\\" THEN <<"\\", Head(s)>>
          ELSE IF Head(s) = "\n" THEN <<"\\", "n">>
          ELSE IF Head(s) = "\t" THEN <<"\\", "t">>
          ELSE IF Head(s) = BadByte THEN <<"\\", "x", "f", "f">>
          ELSE <<Head(s)>>) \o ReprEscape(Tail(s), q)

RECURSIVE PyRepr(_)
\* repr(value)
PyRepr(v) ==
    IF v.t = "str" THEN <<ReprQuote(v.s)>> \o ReprEscape(v.s, ReprQuote(v.s)) \o <<ReprQuote(v.s)>>
    ELSE IF v.t = "bytes"
         THEN <<"b", ReprQuote(v.s)>> \o ReprEscape(v.s, ReprQuote(v.s)) \o <<ReprQuote(v.s)>>
    ELSE IF v.t = "list"
         THEN <<"[">> \o Join(<<",", " ">>, [i \in 1..Len(v.items) |-> PyRepr(v.items[i])])
              \o <<"]">>
    ELSE IF v.t = "tuple"
         THEN <<"(">> \o Join(<<",", " ">>, [i \in 1..Len(v.items) |-> PyRepr(v.items[i])])
              \o (IF Len(v.items) = 1 THEN <<",">> ELSE <<>>) \o <<")">>
    ELSE IF v.t = "None" THEN <<"N","o","n","e">>
    ELSE v.s

\* str(value)
PyStr(v) == IF v.t = "str" THEN v.s ELSE PyRepr(v)

----------------------------------------------------------------------------
(* dict: a sequence of [name, val] entries in insertion order *)

DictHas(d, name) == \E i \in 1..Len(d) : d[i].name = name

\* d.get(name)
DictGet(d, name) ==
    IF DictHas(d, name) THEN d[CHOOSE i \in 1..Len(d) : d[i].name = name].val ELSE VNone

\* d[name] = val
DictSet(d, name, val) ==
    IF DictHas(d, name)
    THEN [i \in 1..Len(d) |-> IF d[i].name = name THEN [name |-> name, val |-> val] ELSE d[i]]
    ELSE Append(d, [name |-> name, val |-> val])

RECURSIVE DictMerge(_, _)
\* a | b
DictMerge(a, b) ==
    IF b = <<>> THEN a ELSE DictMerge(DictSet(a, Head(b).name, Head(b).val), Tail(b))

----------------------------------------------------------------------------
(* str.format, for replacement fields {}, {<digits>} and {<identifier>} *)

Digits == <<"0","1","2","3","4","5","6","7","8","9">>
IsDigit(c) == \E i \in 1..10 : Digits[i] = c
DigitVal(c) == (CHOOSE i \in 1..10 : Digits[i] = c) - 1

RECURSIVE NumVal(_)
NumVal(s) == IF s = <<>> THEN 0 ELSE 10 * NumVal(SubSeq(s, 1, Len(s) - 1)) + DigitVal(s[Len(s)])

IsIdentifier(s) ==
    /\ s # <<>>
    /\ \A i \in 1..Len(s) : s[i] \in Letters \cup {"_"} \/ (i > 1 /\ IsDigit(s[i]))

\* text followed by the rest of a substitution, NULL once the substitution failed
FmtCons(x, rest) == IF rest = NULL THEN NULL ELSE x \o rest

RECURSIVE FormatFrom(_, _, _, _, _, _)
\* the substitution from position i on; auto is the next automatic index, mode is
\* "none", "auto" or "manual"; NULL when str.format raises
FormatFrom(base, i, auto, mode, args, kwargs) ==
    IF i > Len(base) THEN <<>>
    ELSE IF base[i] = "{" /\ i < Len(base) /\ base[i + 1] = "{"
         THEN FmtCons(<<"{">>, FormatFrom(base, i + 2, auto, mode, args, kwargs))
    ELSE IF base[i] = "}" /\ i < Len(base) /\ base[i + 1] = "}"
         THEN FmtCons(<<"}">>, FormatFrom(base, i + 2, auto, mode, args, kwargs))
    ELSE IF base[i] = "}" THEN NULL                      \* ValueError: single '}'
    ELSE IF base[i] = "{"
         THEN LET close == FindAny(SubSeq(base, i + 1, Len(base)), {"}"})
                  field == SubSeq(base, i + 1, i + close - 1)
              IN  IF close = 0 THEN NULL                 \* ValueError: unmatched '{'
                  ELSE IF field = <<>>
                       THEN IF mode = "manual" \/ auto >= Len(args)
                            THEN NULL                    \* ValueError / IndexError
                            ELSE FmtCons(PyStr(args[auto + 1]),
                                         FormatFrom(base, i + close + 1, auto + 1, "auto",
                                                    args, kwargs))
                  ELSE IF \A j \in 1..Len(field) : IsDigit(field[j])
                       THEN IF mode = "auto" \/ NumVal(field) >= Len(args)
                            THEN NULL                    \* ValueError / IndexError
                            ELSE FmtCons(PyStr(args[NumVal(field) + 1]),
                                         FormatFrom(base, i + close + 1, auto, "manual",
                                                    args, kwargs))
                  ELSE IF IsIdentifier(field)
                       THEN IF ~DictHas(kwargs, field)
                            THEN NULL                    \* KeyError
                            ELSE FmtCons(PyStr(DictGet(kwargs, field)),
                                         FormatFrom(base, i + close + 1, auto, mode,
                                                    args, kwargs))
                  ELSE NULL        \* conversions, specs, attribute/index fields: not modelled
    ELSE FmtCons(<<base[i]>>, FormatFrom(base, i + 1, auto, mode, args, kwargs))

\* base.format(*args, **kwargs): the text, or NULL when it raises
str_format(base, args, kwargs) == FormatFrom(base, 1, 0, "none", args, kwargs)

----------------------------------------------------------------------------
(* recipe_parser.py: syntax nodes and the constant folder                     *)
(* Expression nodes: Constant(val), Name(id), Tuple(elts), List(elts),        *)
(* BinOp(op, left, right), JoinedStr(parts), FormattedValue(inner),           *)
(* Call(func, args, keywords), Attribute(obj, attr), and OtherExpr for every  *)
(* other kind of expression.                                                  *)

Constant(val) == [kind |-> "Constant", val |-> val]
Name(id) == [kind |-> "Name", id |-> id]
TupleNode(elts) == [kind |-> "Tuple", elts |-> elts]
ListNode(elts) == [kind |-> "List", elts |-> elts]
BinOp(op, left, right) == [kind |-> "BinOp", op |-> op, left |-> left, right |-> right]
JoinedStr(parts) == [kind |-> "JoinedStr", parts |-> parts]
FormattedValue(inner) == [kind |-> "FormattedValue", inner |-> inner]
Attribute(obj, attr) == [kind |-> "Attribute", obj |-> obj, attr |-> attr]
Call(func, args, keywords) ==
    [kind |-> "Call", func |-> func, args |-> args, keywords |-> keywords]
Keyword(arg, value) == [arg |-> arg, value |-> value]
OtherExpr == [kind |-> "Other"]

ATTR_FORMAT == <<"f","o","r","m","a","t">>

AnyRaise(vals) == \E i \in 1..Len(vals) : IsRaise(vals[i])
FirstRaise(vals) ==
    vals[CHOOSE i \in 1..Len(vals) : IsRaise(vals[i]) /\ \A j \in 1..(i - 1) : ~IsRaise(vals[j])]
AnyNone(vals) == \E i \in 1..Len(vals) : vals[i] = VNone

\* left + right for the operand types the folder lets through
PyAdd(left, right) ==
    IF left.t = right.t THEN [left EXCEPT !.s = left.s \o right.s]
    ELSE Raised("TypeError")

RECURSIVE _eval_node(_, _)
RECURSIVE EvalJoined(_, _, _)

\* the loop of the JoinedStr branch over node.values, parts being the texts so far
EvalJoined(values, constants, parts) ==
    IF values = <<>> THEN VStr(Concat(parts))
    ELSE LET val == _eval_node(Head(values), constants)
         IN  IF IsRaise(val) THEN val
             ELSE IF val = VNone THEN VNone
             ELSE EvalJoined(Tail(values), constants, Append(parts, PyStr(val)))

\* _eval_node(node, constants)
_eval_node(node, constants) ==
    IF node.kind = "Constant" THEN node.val
    ELSE IF node.kind = "Name" THEN DictGet(constants, node.id)
    ELSE IF node.kind \in {"Tuple", "List"}
         THEN LET items == [i \in 1..Len(node.elts) |-> _eval_node(node.elts[i], constants)]
              IN  IF AnyRaise(items) THEN FirstRaise(items)
                  ELSE IF AnyNone(items) THEN VNone
                  ELSE IF node.kind = "Tuple" THEN VTuple(items) ELSE VList(items)
    ELSE IF node.kind = "BinOp" /\ node.op = "Add"
         THEN LET left == _eval_node(node.left, constants)
                  right == _eval_node(node.right, constants)
              IN  IF IsRaise(left) THEN left
                  ELSE IF IsRaise(right) THEN right
                  ELSE IF left.t \in {"str", "bytes"} /\ right.t \in {"str", "bytes"}
                       THEN PyAdd(left, right)
                  ELSE IF left.t = "list" /\ right.t = "list"
                       THEN VList(left.items \o right.items)
                  ELSE VNone
    ELSE IF node.kind = "JoinedStr" THEN EvalJoined(node.parts, constants, <<>>)
    ELSE IF node.kind = "FormattedValue" THEN _eval_node(node.inner, constants)
    ELSE IF node.kind = "Call" /\ node.func.kind = "Attribute" /\ node.func.attr = ATTR_FORMAT
         THEN LET base == _eval_node(node.func.obj, constants)
                  args == [i \in 1..Len(node.args) |-> _eval_node(node.args[i], constants)]
                  kws == SelectSeq(node.keywords, LAMBDA kw : Truthy(kw.arg))
                  kwvals == [i \in 1..Len(kws) |-> _eval_node(kws[i].value, constants)]
                  kwargs == [i \in 1..Len(kws) |-> [name |-> kws[i].arg, val |-> kwvals[i]]]
              IN  IF IsRaise(base) THEN base
                  ELSE IF base.t # "str" THEN VNone
                  ELSE IF AnyRaise(args) THEN FirstRaise(args)
                  ELSE IF AnyRaise(kwvals) THEN FirstRaise(kwvals)
                  ELSE IF AnyNone(args) \/ AnyNone(kwvals) THEN VNone
                  ELSE LET out == str_format(base.s, args, kwargs)
                       IN  IF out = NULL THEN VNone ELSE VStr(out)
    ELSE VNone

----------------------------------------------------------------------------
(* recipe_parser.py: statements, the walkers and parse_recipe_file            *)
(* Statements: Assign(targets, value), AnnAssign(target, has_value, value),   *)
(* AugAssign(target, op, value), ClassDef(name, bases, body) and OtherStmt.   *)
(* A document is [stem, text, syntax_ok, syntax_msg, body]: its file name     *)
(* stem, its text, whether ast.parse accepts it, the SyntaxError message if   *)
(* not, and the module body if so.                                            *)

Assign(targets, value) == [stmt |-> "Assign", targets |-> targets, value |-> value]
AnnAssign(target, has_value, value) ==
    [stmt |-> "AnnAssign", target |-> target, has_value |-> has_value, value |-> value]
AugAssign(target, op, value) ==
    [stmt |-> "AugAssign", target |-> target, op |-> op, value |-> value]
ClassDef(name, bases, body) ==
    [stmt |-> "ClassDef", name |-> name, bases |-> bases, body |-> body]
OtherStmt == [stmt |-> "Other"]

RecipeBases ==
    { <<"B","a","s","i","c","N","e","w","s","R","e","c","i","p","e">>,
      <<"A","u","t","o","m","a","t","i","c","N","e","w","s","R","e","c","i","p","e">>,
      <<"C","u","s","t","o","m","I","n","d","e","x","R","e","c","i","p","e">>,
      <<"C","a","l","i","b","r","e","P","e","r","i","o","d","i","c","a","l">> }

\* _is_recipe_base(base)
_is_recipe_base(base) ==
    IF base.kind = "Name" THEN base.id \in RecipeBases
    ELSE IF base.kind = "Attribute" THEN base.attr \in RecipeBases
    ELSE FALSE

ModuleRetained == {"str", "bytes", "int", "float", "bool", "list", "tuple"}

RECURSIVE CollectFrom(_, _)
\* the loop of _collect_module_constants over the rest of tree.body: the dict, or
\* the exception leaving _eval_node
CollectFrom(body, constants) ==
    IF body = <<>> THEN Dict(constants)
    ELSE LET node == Head(body)
         IN  IF node.stmt = "Assign" /\ Len(node.targets) = 1
                                     /\ node.targets[1].kind = "Name"
             THEN LET val == _eval_node(node.value, constants)
                  IN  IF IsRaise(val) THEN val
                      ELSE IF val.t \in ModuleRetained
                           THEN CollectFrom(Tail(body),
                                            DictSet(constants, node.targets[1].id, val))
                      ELSE CollectFrom(Tail(body), constants)
             ELSE CollectFrom(Tail(body), constants)

\* _collect_module_constants(tree)
_collect_module_constants(body) == CollectFrom(body, <<>>)

\* _find_recipe_class(tree): the position in tree.body of the class, 0 for None
_find_recipe_class(body) ==
    LET hit == {i \in 1..Len(body) :
                   /\ body[i].stmt = "ClassDef"
                   /\ \E b \in 1..Len(body[i].bases) : _is_recipe_base(body[i].bases[b])}
    IN  IF hit = {} THEN 0 ELSE CHOOSE i \in hit : \A j \in hit : i <= j

RECURSIVE ExtractFrom(_, _, _)
\* the loop of _extract_class_assignments over the rest of node.body
ExtractFrom(body, constants, assigns) ==
    IF body = <<>> THEN Dict(assigns)
    ELSE LET item == Head(body)
             scope == DictMerge(constants, assigns)
         IN  IF item.stmt = "Assign" /\ Len(item.targets) = 1
             THEN IF item.targets[1].kind = "Name"
                  THEN LET val == _eval_node(item.value, scope)
                       IN  IF IsRaise(val) THEN val
                           ELSE IF val # VNone
                                THEN ExtractFrom(Tail(body), constants,
                                                 DictSet(assigns, item.targets[1].id, val))
                           ELSE ExtractFrom(Tail(body), constants, assigns)
                  ELSE ExtractFrom(Tail(body), constants, assigns)
             ELSE IF item.stmt = "AnnAssign" /\ item.target.kind = "Name"
             THEN LET val == IF item.has_value THEN _eval_node(item.value, scope) ELSE VNone
                  IN  IF IsRaise(val) THEN val
                      ELSE IF val # VNone
                           THEN ExtractFrom(Tail(body), constants,
                                            DictSet(assigns, item.target.id, val))
                      ELSE ExtractFrom(Tail(body), constants, assigns)
             ELSE IF item.stmt = "AugAssign" /\ item.target.kind = "Name"
             THEN IF item.op = "Add"
                  THEN LET current == DictGet(assigns, item.target.id)
                           extra == _eval_node(item.value, scope)
                       IN  IF IsRaise(extra) THEN extra
                           ELSE IF current.t = "list" /\ extra.t = "list"
                                THEN ExtractFrom(Tail(body), constants,
                                         DictSet(assigns, item.target.id,
                                                 VList(current.items \o extra.items)))
                           ELSE ExtractFrom(Tail(body), constants, assigns)
                  ELSE ExtractFrom(Tail(body), constants, assigns)
             ELSE ExtractFrom(Tail(body), constants, assigns)

\* _extract_class_assignments(node, constants): the dict, or the exception
_extract_class_assignments(node, constants) == ExtractFrom(node.body, constants, <<>>)

\* text of a str or bytes value, bytes decoded
TextOf(v) == IF v.t = "bytes" THEN decode_replace(v.s) ELSE v.s

\* the hits of one element of feeds
FeedEntryHits(entry) ==
    IF entry.t \in {"str", "bytes"}
    THEN LET url == normalize_url(TextOf(entry))
         IN  IF Truthy(url)
             THEN <<EndpointHit(url, classify_url(url, SRC_FEEDS, NULL), SRC_FEEDS, NULL,
                                NULL, entry.s, 95)>>
             ELSE <<>>
    ELSE IF IsSeqVal(entry) /\ Len(entry.items) >= 2
    THEN LET title0 == entry.items[1]
             url0 == entry.items[2]
             url == IF url0.t = "bytes" THEN VStr(decode_replace(url0.s)) ELSE url0
             title == IF title0.t = "bytes" THEN VStr(decode_replace(title0.s)) ELSE title0
             url_n == IF url.t = "str" THEN normalize_url(url.s) ELSE NULL
         IN  IF Truthy(url_n)
             THEN <<EndpointHit(url_n, classify_url(url_n, SRC_FEEDS, NULL), SRC_FEEDS, NULL,
                                IF title # VNone THEN PyStr(title) ELSE NULL,
                                PyStr(url), 98)>>
             ELSE <<>>
    ELSE <<>>

\* _feeds_to_endpoints(feeds)
_feeds_to_endpoints(feeds) ==
    IF ~IsSeqVal(feeds) THEN <<>>
    ELSE Concat([i \in 1..Len(feeds.items) |-> FeedEntryHits(feeds.items[i])])

URL_WORD == <<"u","r","l">>

\* the hits of one item of assigns
AttrHits(name, value) ==
    IF Contains(Lower(name), URL_WORD) /\ value.t \in {"str", "bytes"}
    THEN LET url == normalize_url(TextOf(value))
         IN  IF Truthy(url)
             THEN <<EndpointHit(url, classify_url(url, SRC_ATTR, name), SRC_ATTR, name,
                                NULL, PyStr(value), 80)>>
             ELSE <<>>
    ELSE <<>>

\* _attr_url_hits(assigns)
_attr_url_hits(assigns) ==
    Concat([i \in 1..Len(assigns) |-> AttrHits(assigns[i].name, assigns[i].val)])

\* the literal scanner part of parse_recipe_file
LiteralHits(raw) ==
    LET found == find_urls_in_text(raw)
        hit(f) == LET url == normalize_url(f)
                  IN  IF Truthy(url)
                      THEN <<EndpointHit(url, classify_url(url, SRC_LITERAL, NULL),
                                         SRC_LITERAL, NULL, NULL, f, 60)>>
                      ELSE <<>>
    IN  Concat([i \in 1..Len(found) |-> hit(found[i])])

\* _as_str(value)
_as_str(value) ==
    IF value = VNone THEN NULL
    ELSE IF value.t = "bytes" THEN decode_replace(value.s)
    ELSE PyStr(value)

RecipeMetadata(title, author, description, language, publication_type, needs_subscription, class_name) ==
    [title |-> title, author |-> author, description |-> description,
     language |-> language, publication_type |-> publication_type,
     needs_subscription |-> needs_subscription, class_name |-> class_name]

SYNTAX_ERROR_PREFIX == <<"S","y","n","t","a","x","E","r","r","o","r",":"," ">>
A_TITLE == <<"t","i","t","l","e">>
A_AUTHOR == <<"_","_","a","u","t","h","o","r","_","_">>
A_DESCRIPTION == <<"d","e","s","c","r","i","p","t","i","o","n">>
A_LANGUAGE == <<"l","a","n","g","u","a","g","e">>
A_PUBLICATION_TYPE == <<"p","u","b","l","i","c","a","t","i","o","n","_","t","y","p","e">>
A_NEEDS_SUBSCRIPTION ==
    <<"n","e","e","d","s","_","s","u","b","s","c","r","i","p","t","i","o","n">>
A_FEEDS == <<"f","e","e","d","s">>

Returned(meta, hits, error) ==
    [outcome |-> "return", meta |-> meta, hits |-> hits, error |-> error]
Raises(exc) == [outcome |-> "raise", exc |-> exc]

\* the end of parse_recipe_file: the metadata read from assigns, and the hits of
\* the three extractors
MetadataAndHits(url_hits, class_name, assigns) ==
    Returned(RecipeMetadata(_as_str(DictGet(assigns, A_TITLE)),
                            _as_str(DictGet(assigns, A_AUTHOR)),
                            _as_str(DictGet(assigns, A_DESCRIPTION)),
                            _as_str(DictGet(assigns, A_LANGUAGE)),
                            _as_str(DictGet(assigns, A_PUBLICATION_TYPE)),
                            _as_str(DictGet(assigns, A_NEEDS_SUBSCRIPTION)),
                            class_name),
             url_hits \o _feeds_to_endpoints(DictGet(assigns, A_FEEDS))
                      \o _attr_url_hits(assigns),
             NULL)

\* parse_recipe_file once _extract_class_assignments has run (assigns is {} when
\* there is no recipe class)
AfterExtract(url_hits, class_name, extracted) ==
    IF IsRaise(extracted) THEN Raises(extracted.exc)
    ELSE MetadataAndHits(url_hits, class_name, extracted.d)

\* parse_recipe_file once _collect_module_constants and _find_recipe_class have run
AfterCollect(body, url_hits, constants, c) ==
    IF IsRaise(constants) THEN Raises(constants.exc)
    ELSE IF c # 0
         THEN AfterExtract(url_hits, body[c].name,
                           _extract_class_assignments(body[c], constants.d))
    ELSE AfterExtract(url_hits, NULL, Dict(<<>>))

\* a str or bytes constant as the decoded text spells it
DecodedVal(v) == IF v.t \in {"str", "bytes"} THEN [v EXCEPT !.s = decode_html_entities(@)] ELSE v

RECURSIVE DecodedExpr(_)
\* an expression of the document as it stands in the decoded text: the references
\* inside its string literals are decoded
DecodedExpr(n) ==
    IF n.kind = "Constant" THEN Constant(DecodedVal(n.val))
    ELSE IF n.kind \in {"Tuple", "List"}
         THEN [n EXCEPT !.elts = [i \in 1..Len(@) |-> DecodedExpr(@[i])]]
    ELSE IF n.kind = "BinOp"
         THEN [n EXCEPT !.left = DecodedExpr(@), !.right = DecodedExpr(@)]
    ELSE IF n.kind = "JoinedStr"
         THEN [n EXCEPT !.parts = [i \in 1..Len(@) |-> DecodedExpr(@[i])]]
    ELSE IF n.kind = "FormattedValue" THEN [n EXCEPT !.inner = DecodedExpr(@)]
    ELSE IF n.kind = "Attribute" THEN [n EXCEPT !.obj = DecodedExpr(@)]
    ELSE IF n.kind = "Call"
         THEN [n EXCEPT !.func = DecodedExpr(@),
                        !.args = [i \in 1..Len(@) |-> DecodedExpr(@[i])],
                        !.keywords = [i \in 1..Len(@) |-> [@[i] EXCEPT !.value = DecodedExpr(@)]]]
    ELSE n

RECURSIVE DecodedBody(_)
\* the statements of the document as they stand in the decoded text
DecodedBody(body) ==
    [i \in 1..Len(body) |->
        IF body[i].stmt \in {"Assign", "AugAssign"} THEN [body[i] EXCEPT !.value = DecodedExpr(@)]
        ELSE IF body[i].stmt = "AnnAssign" /\ body[i].has_value
             THEN [body[i] EXCEPT !.value = DecodedExpr(@)]
        ELSE IF body[i].stmt = "ClassDef" THEN [body[i] EXCEPT !.body = DecodedBody(@)]
        ELSE body[i]]

\* ast.parse(raw) of line 207, raw being the decoded text: doc.body is the document
\* as written, and decoding touches it only inside string literals (the references
\* of the modelled documents decode to characters that end no literal)
ast_parse(doc) ==
    IF decode_html_entities(doc.text) = doc.text THEN doc.body ELSE DecodedBody(doc.body)

\* parse_recipe_file(path): what it returns, or the exception that leaves it
parse_recipe_file(doc) ==
    IF ~doc.syntax_ok
    THEN Returned(RecipeMetadata(NULL, NULL, NULL, NULL, NULL, NULL, NULL),
                  LiteralHits(decode_html_entities(doc.text)),
                  SYNTAX_ERROR_PREFIX \o doc.syntax_msg)
    ELSE AfterCollect(ast_parse(doc), LiteralHits(decode_html_entities(doc.text)),
                      _collect_module_constants(ast_parse(doc)),
                      _find_recipe_class(ast_parse(doc)))

----------------------------------------------------------------------------
(* urllib.parse.urlsplit, as used by db.upsert_endpoint *)

SchemeChars ==
    {UpperCase[i] : i \in 1..26} \cup {LowerCase[i] : i \in 1..26}
    \cup {"0","1","2","3","4","5","6","7","8","9","+","-","."}
HexOrColon ==
    {"0","1","2","3","4","5","6","7","8","9","a","b","c","d","e","f",
     "A","B","C","D","E","F",":"}

RemoveChars(s, cs) == SelectSeq(s, LAMBDA c : c \notin cs)

Split(raised, scheme, netloc, path, query) ==
    [raised |-> raised, scheme |-> scheme, netloc |-> netloc, path |-> path,
     query |-> query]

\* the query is what follows the first "?" of the rest
SplitQuery(scheme, netloc, rest, q) ==
    IF q = 0 THEN Split(FALSE, scheme, netloc, rest, <<>>)
    ELSE Split(FALSE, scheme, netloc, SubSeq(rest, 1, q - 1), SubSeq(rest, q + 1, Len(rest)))

\* the fragment, from the first "#" of the rest, is dropped
SplitFragment(scheme, netloc, rest, h) ==
    IF h = 0 THEN SplitQuery(scheme, netloc, rest, FindAny(rest, {"?"}))
    ELSE SplitQuery(scheme, netloc, SubSeq(rest, 1, h - 1),
                    FindAny(SubSeq(rest, 1, h - 1), {"?"}))

\* the text between "[" and the first "]" after it
BracketedHost(netloc, lb) ==
    SubSeq(netloc, lb + 1, lb + FindAny(SubSeq(netloc, lb + 1, Len(netloc)), {"]"}) - 1)

\* ValueError("Invalid IPv6 URL"): unbalanced brackets, or a bracketed host that is
\* no IPv6 address
InvalidNetloc(netloc, lb, rb) ==
    \/ (lb > 0) # (rb > 0)
    \/ /\ lb > 0 /\ rb > 0
       /\ ~(/\ Contains(BracketedHost(netloc, lb), <<":">>)
            /\ \A j \in 1..Len(BracketedHost(netloc, lb)) :
                  BracketedHost(netloc, lb)[j] \in HexOrColon)

SplitChecked(scheme, netloc, rest) ==
    IF InvalidNetloc(netloc, FindAny(netloc, {"["}), FindAny(netloc, {"]"}))
    THEN Split(TRUE, <<>>, <<>>, <<>>, <<>>)
    ELSE SplitFragment(scheme, netloc, rest, FindAny(rest, {"#"}))

\* the netloc is what follows "//" up to the first "/", "?" or "#"
SplitNetloc(scheme, afterSl, d) ==
    IF d = 0 THEN SplitChecked(scheme, afterSl, <<>>)
    ELSE SplitChecked(scheme, SubSeq(afterSl, 1, d - 1), SubSeq(afterSl, d, Len(afterSl)))

SplitAuthority(scheme, rest) ==
    IF StartsWith(rest, <<"/", "/">>)
    THEN SplitNetloc(scheme, SubSeq(rest, 3, Len(rest)),
                     FindAny(SubSeq(rest, 3, Len(rest)), {"/", "?", "#"}))
    ELSE SplitFragment(scheme, <<>>, rest, FindAny(rest, {"#"}))

\* the scheme is what precedes the first ":" when that is a letter followed by
\* scheme characters
SplitScheme(u, i) ==
    IF i > 1 /\ u[1] \in Letters /\ \A j \in 1..(i - 1) : u[j] \in SchemeChars
    THEN SplitAuthority(Lower(SubSeq(u, 1, i - 1)), SubSeq(u, i + 1, Len(u)))
    ELSE SplitAuthority(<<>>, u)

\* the url without leading whitespace and without tabs and newlines
Sanitized(url) == RemoveChars(LStrip(url, Whitespace), {"\t", "\n"})

\* urlsplit(url): [raised, scheme, netloc, path, query]
urlsplit(url) == SplitScheme(Sanitized(url), FindAny(Sanitized(url), {":"}))

----------------------------------------------------------------------------
(* db.py: tables are sequences of rows in rowid order *)

RecipeCols ==
    {"recipe_uid", "title", "author", "description", "language", "publication_type",
     "needs_subscription", "class_name", "file_path", "file_sha256", "parse_status",
     "parse_error", "last_parsed"}

\* the rowid sqlite gives a new row of an INTEGER PRIMARY KEY table
NextId(tbl) ==
    IF tbl = <<>> THEN 1
    ELSE 1 + (CHOOSE m \in {tbl[i].id : i \in 1..Len(tbl)} :
                 \A i \in 1..Len(tbl) : tbl[i].id <= m)

\* equality as a UNIQUE index sees it: NULL is distinct from every value, NULL included
UniqueEq(a, b) == a # NULL /\ b # NULL /\ a = b

\* rows of tbl in conflict with a new row on UNIQUE(recipe_uid)
RecipeConflicts(tbl, uid) == {i \in 1..Len(tbl) : UniqueEq(tbl[i].recipe_uid, uid)}

\* upsert_recipe whose DO UPDATE SET list leaves out the parse outcome
upsert_recipe_stale_status(tbl, payload) ==
    LET hit == RecipeConflicts(tbl, payload.recipe_uid)
        keys == DOMAIN payload
    IN  IF hit # {}
        THEN LET i == CHOOSE j \in hit : TRUE
             IN  [tbl EXCEPT ![i] =
                     [c \in RecipeCols \cup {"id"} |->
                         IF c \in keys \ {"recipe_uid", "parse_status", "parse_error"}
                         THEN payload[c] ELSE tbl[i][c]]]
        ELSE Append(tbl,
                 [c \in RecipeCols \cup {"id"} |->
                     IF c = "id" THEN NextId(tbl)
                     ELSE IF c \in keys THEN payload[c] ELSE NULL])

\* upsert_recipe(conn, payload): the table after the statement
upsert_recipe(tbl, payload) ==
    LET hit == RecipeConflicts(tbl, payload.recipe_uid)
        keys == DOMAIN payload
    IN  IF hit # {}
        THEN LET i == CHOOSE j \in hit : TRUE
             IN  [tbl EXCEPT ![i] =
                     [c \in RecipeCols \cup {"id"} |->
                         IF c \in keys /\ c # "recipe_uid" THEN payload[c] ELSE tbl[i][c]]]
        ELSE Append(tbl,
                 [c \in RecipeCols \cup {"id"} |->
                     IF c = "id" THEN NextId(tbl)
                     ELSE IF c \in keys THEN payload[c] ELSE NULL])

\* upsert_recipe's return value: SELECT id FROM recipes WHERE recipe_uid = ?
recipe_id_of(tbl, uid) ==
    LET hit == {i \in 1..Len(tbl) : tbl[i].recipe_uid = uid}
    IN  tbl[CHOOSE i \in hit : \A j \in hit : i <= j].id

EndpointConflicts(tbl, url) == {i \in 1..Len(tbl) : UniqueEq(tbl[i].url, url)}

\* the row INSERT INTO endpoints adds: parts is urlsplit(url)
EndpointRow(id, url, url_type, parts) ==
    [id |-> id, url |-> url, url_type |-> url_type, scheme |-> parts.scheme,
     domain |-> parts.netloc, path |-> parts.path, query |-> parts.query]

\* INSERT OR REPLACE INTO endpoints: the stored row is deleted and a new row inserted
upsert_endpoint_replace(tbl, url, url_type) ==
    LET kept == SelectSeq(tbl, LAMBDA r : ~UniqueEq(r.url, url))
    IN  Append(kept, EndpointRow(NextId(kept), url, url_type, urlsplit(url)))

\* upsert_endpoint(conn, url, url_type): the table after the statement
\* (the caller checks urlsplit(url).raised first)
upsert_endpoint(tbl, url, url_type) ==
    LET hit == EndpointConflicts(tbl, url)
    IN  IF hit # {}
        THEN LET i == CHOOSE j \in hit : TRUE
             IN  [tbl EXCEPT ![i].url_type = url_type]
        ELSE Append(tbl, EndpointRow(NextId(tbl), url, url_type, urlsplit(url)))

\* upsert_endpoint's return value: SELECT id FROM endpoints WHERE url = ?
endpoint_id_of(tbl, url) ==
    LET hit == {i \in 1..Len(tbl) : tbl[i].url = url}
    IN  tbl[CHOOSE i \in hit : \A j \in hit : i <= j].id

\* rows in conflict on UNIQUE(recipe_id, endpoint_id, context, feed_title, source)
LinkConflicts(tbl, recipe_id, endpoint_id, context, feed_title, source) ==
    {i \in 1..Len(tbl) :
        /\ tbl[i].recipe_id = recipe_id
        /\ tbl[i].endpoint_id = endpoint_id
        /\ UniqueEq(tbl[i].context, context)
        /\ UniqueEq(tbl[i].feed_title, feed_title)
        /\ UniqueEq(tbl[i].source, source)}

\* link_recipe_endpoint(conn, recipe_id, endpoint_id, source, context, feed_title,
\* raw_url, confidence), ts being its reading of now_utc_iso()
link_recipe_endpoint(tbl, recipe_id, endpoint_id, source, context, feed_title, raw_url, confidence, ts) ==
    LET hit == LinkConflicts(tbl, recipe_id, endpoint_id, context, feed_title, source)
    IN  IF hit # {}
        THEN LET i == CHOOSE j \in hit : TRUE
             IN  [tbl EXCEPT ![i].last_seen = ts]
        ELSE Append(tbl,
                 [recipe_id |-> recipe_id, endpoint_id |-> endpoint_id,
                  context |-> context, feed_title |-> feed_title, source |-> source,
                  confidence |-> confidence, raw_url |-> raw_url,
                  first_seen |-> ts, last_seen |-> ts])

\* a run that is not recorded
record_run_dropped(tbl, recipe_uid, status, started_at, finished_at, error, article_count) == tbl

\* record_run(conn, recipe_uid, status, started_at, finished_at, error, article_count)
record_run(tbl, recipe_uid, status, started_at, finished_at, error, article_count) ==
    Append(tbl,
        [id |-> NextId(tbl), recipe_uid |-> recipe_uid, started_at |-> started_at,
         finished_at |-> finished_at, status |-> status, error |-> error,
         article_count |-> article_count])

----------------------------------------------------------------------------
(* fetch_news.py: fingerprints and article insertion *)

ArticleCols ==
    {"recipe_uid", "recipe_title", "feed_title", "article_title", "article_url",
     "article_guid", "author", "summary", "published", "fetched_at", "content_html",
     "content_text", "content_hash", "fingerprint"}

\* _hash_text(text): sha256 is taken to be injective, so a digest is the digested
\* text behind a marker
_hash_text(text) == <<"#">> \o text

\* _fingerprint(*parts): "|".join(p or "" for p in parts), hashed
_fingerprint(parts) ==
    _hash_text(Join(<<"|">>, [i \in 1..Len(parts) |->
                                 IF Truthy(parts[i]) THEN parts[i] ELSE <<>>]))

\* _insert_article with INSERT OR REPLACE: the stored row is deleted and the new
\* one inserted
_insert_article_replace(tbl, payload) ==
    LET keep == SelectSeq(tbl, LAMBDA r : ~UniqueEq(r.fingerprint, payload.fingerprint))
    IN  Append(keep,
            [c \in ArticleCols \cup {"id"} |->
                IF c = "id" THEN NextId(tbl) ELSE payload[c]])

\* _insert_article(conn, payload): INSERT OR IGNORE skips the row on a UNIQUE
\* (fingerprint) or NOT NULL (recipe_uid) conflict
_insert_article(tbl, payload) ==
    LET keys == DOMAIN payload
        fp == IF "fingerprint" \in keys THEN payload.fingerprint ELSE NULL
        uid == IF "recipe_uid" \in keys THEN payload.recipe_uid ELSE NULL
    IN  IF uid = NULL \/ \E i \in 1..Len(tbl) : UniqueEq(tbl[i].fingerprint, fp)
        THEN tbl
        ELSE Append(tbl,
                 [c \in ArticleCols \cup {"id"} |->
                     IF c = "id" THEN NextId(tbl)
                     ELSE IF c \in keys THEN payload[c] ELSE NULL])

----------------------------------------------------------------------------
(* utils.html_to_text, for sources without markup ("<", ">", "&") *)

RECURSIVE SplitWhitespace(_)
\* str.split()
SplitWhitespace(s) ==
    LET t == LStrip(s, Whitespace)
        e == FindAny(t, Whitespace)
    IN  IF t = <<>> THEN <<>>
        ELSE IF e = 0 THEN <<t>>
        ELSE <<SubSeq(t, 1, e - 1)>> \o SplitWhitespace(SubSeq(t, e + 1, Len(t)))

\* html_to_text(html_src): the character data, whitespace runs collapsed
html_to_text(html_src) == Join(<<" ">>, SplitWhitespace(html_src))

----------------------------------------------------------------------------
(* rss_fallback.py. An element is [tag, text, attrib, children]: tag is the    *)
(* expanded name ("{namespace}local" when namespaced), text is NULL when the   *)
(* element has none, attrib is a dict. A payload is [wellformed, root].        *)

Element(tag, text, attrib, children) ==
    [tag |-> tag, text |-> text, attrib |-> attrib, children |-> children]

\* _strip_ns(tag)
_strip_ns(tag) ==
    LET e == FindAny(tag, {"}"})
    IN  IF e # 0 THEN SubSeq(tag, e + 1, Len(tag)) ELSE tag

\* _find_child_text(node, name), over the children of node
_find_child_text(children, name) ==
    LET hit == {i \in 1..Len(children) :
                   _strip_ns(children[i].tag) = name /\ Truthy(children[i].text)}
    IN  IF hit = {} THEN NULL
        ELSE Strip(children[CHOOSE i \in hit : \A j \in hit : i <= j].text, Whitespace)

\* _find_child(node, name): the position of the child, 0 for None
_find_child(children, name) ==
    LET hit == {i \in 1..Len(children) : _strip_ns(children[i].tag) = name}
    IN  IF hit = {} THEN 0 ELSE CHOOSE i \in hit : \A j \in hit : i <= j

\* node.findall(name): the direct children whose expanded tag is name
findall(children, name) == SelectSeq(children, LAMBDA c : c.tag = name)

\* attrib.get(name, default)
AttribGet(attrib, name, default) ==
    IF DictHas(attrib, name) THEN DictGet(attrib, name) ELSE default

RSS_ROOT == <<"r","s","s">>
ATOM_ROOT == <<"f","e","e","d">>
ALTERNATE == <<"a","l","t","e","r","n","a","t","e">>

\* the loop "for child in item" that takes content:encoded
EncodedContent(children) ==
    LET hit == {i \in 1..Len(children) :
                   _strip_ns(children[i].tag) = <<"e","n","c","o","d","e","d">>
                   /\ Truthy(children[i].text)}
    IN  IF hit = {} THEN NULL ELSE children[CHOOSE i \in hit : \A j \in hit : i <= j].text

RECURSIVE AtomLink(_, _)
\* the loop "for link_el in item.findall('link')", link being its value so far
AtomLink(links, link) ==
    IF links = <<>> THEN link
    ELSE LET href == AttribGet(Head(links).attrib, <<"h","r","e","f">>, NULL)
         IN  IF AttribGet(Head(links).attrib, <<"r","e","l">>, ALTERNATE) = ALTERNATE
             THEN href
             ELSE AtomLink(Tail(links), IF link = NULL THEN href ELSE link)

RssEntry(item) ==
    [title |-> _find_child_text(item.children, <<"t","i","t","l","e">>),
     link |-> _find_child_text(item.children, <<"l","i","n","k">>),
     guid |-> _find_child_text(item.children, <<"g","u","i","d">>),
     published |-> _find_child_text(item.children, <<"p","u","b","D","a","t","e">>),
     summary |-> _find_child_text(item.children,
                                  <<"d","e","s","c","r","i","p","t","i","o","n">>),
     content |-> EncodedContent(item.children)]

AtomEntry(item) ==
    LET published == _find_child_text(item.children,
                                      <<"p","u","b","l","i","s","h","e","d">>)
    IN  [title |-> _find_child_text(item.children, <<"t","i","t","l","e">>),
         link |-> AtomLink(findall(item.children, <<"l","i","n","k">>), NULL),
         guid |-> _find_child_text(item.children, <<"i","d">>),
         published |-> IF Truthy(published) THEN published
                       ELSE _find_child_text(item.children,
                                             <<"u","p","d","a","t","e","d">>),
         summary |-> _find_child_text(item.children, <<"s","u","m","m","a","r","y">>),
         content |-> _find_child_text(item.children, <<"c","o","n","t","e","n","t">>)]

PARSE_ERROR_MSG == <<"s","y","n","t","a","x"," ","e","r","r","o","r">>

Exc(type, msg) == [type |-> type, msg |-> msg]
NoExc == [type |-> NULL, msg |-> NULL]

Parsed(title, entries) == [exc |-> NoExc, title |-> title, entries |-> entries]

\* parse_feed(xml_bytes): (title, entries), or the ParseError of ET.fromstring
parse_feed(payload) ==
    IF ~payload.wellformed
    THEN [exc |-> Exc(<<"P","a","r","s","e","E","r","r","o","r">>, PARSE_ERROR_MSG),
          title |-> NULL, entries |-> <<>>]
    ELSE LET root == payload.root
             root_tag == _strip_ns(root.tag)
         IN  IF root_tag = RSS_ROOT
             THEN LET c == _find_child(root.children, <<"c","h","a","n","n","e","l">>)
                  IN  IF c = 0 THEN Parsed(NULL, <<>>)
                      ELSE LET channel == root.children[c]
                               items == findall(channel.children, <<"i","t","e","m">>)
                           IN  Parsed(_find_child_text(channel.children,
                                                       <<"t","i","t","l","e">>),
                                      [i \in 1..Len(items) |-> RssEntry(items[i])])
             ELSE IF root_tag = ATOM_ROOT
             THEN LET items == findall(root.children, <<"e","n","t","r","y">>)
                  IN  Parsed(_find_child_text(root.children, <<"t","i","t","l","e">>),
                             [i \in 1..Len(items) |-> AtomEntry(items[i])])
             ELSE Parsed(NULL, <<>>)

----------------------------------------------------------------------------
(* fetch_news.py: what a fetch pass reads from sources.db *)

\* the printable ASCII characters in code point order, from 32 (the backslash and
\* the backtick are written bslash and btick)
Ascii ==
    <<" ","!","\"","#","$","%","&","'","(",")","*","+",",","-",".","/",
      "0","1","2","3","4","5","6","7","8","9",":",";","<","=",">","?",
      "@","A","B","C","D","E","F","G","H","I","J","K","L","M","N","O",
      "P","Q","R","S","T","U","V","W","X","Y","Z","[","bslash","]","^","_",
      "btick","a","b","c","d","e","f","g","h","i","j","k","l","m","n","o",
      "p","q","r","s","t","u","v","w","x","y","z","{","|","}","~">>

CodePoint(c) == 31 + (CHOOSE i \in 1..Len(Ascii) : Ascii[i] = c)

\* a < b in SQLite's BINARY collation
TextLess(a, b) ==
    \E k \in 1..(Len(b)) :
        /\ \A j \in 1..(k - 1) : j <= Len(a) /\ a[j] = b[j]
        /\ k - 1 <= Len(a)
        /\ (k > Len(a) \/ CodePoint(a[k]) < CodePoint(b[k]))

\* a query without ORDER BY: the rows in scan order
OrderByUid_scan_order(rows) == rows

RECURSIVE OrderByUid(_)
\* ORDER BY recipe_uid: rows of equal recipe_uid stay in scan order
OrderByUid(rows) ==
    IF rows = <<>> THEN <<>>
    ELSE LET m == CHOOSE i \in 1..Len(rows) :
                     /\ \A j \in 1..Len(rows) : ~TextLess(rows[j].recipe_uid, rows[i].recipe_uid)
                     /\ \A j \in 1..(i - 1) : rows[j].recipe_uid # rows[i].recipe_uid
         IN  <<rows[m]>> \o OrderByUid(SubSeq(rows, 1, m - 1) \o SubSeq(rows, m + 1, Len(rows)))

\* _load_recipes(conn)
_load_recipes(src) ==
    OrderByUid([i \in 1..Len(src.recipes) |->
                   [id |-> src.recipes[i].id, recipe_uid |-> src.recipes[i].recipe_uid,
                    title |-> src.recipes[i].title, file_path |-> src.recipes[i].file_path]])

\* the rows of the join in _load_feed_endpoints, before ORDER BY
FeedRows(src) ==
    LET links == SelectSeq(src.recipe_endpoints,
                     LAMBDA l : /\ \E e \in 1..Len(src.endpoints) :
                                      /\ src.endpoints[e].id = l.endpoint_id
                                      /\ src.endpoints[e].url_type = T_FEED
                                /\ \E r \in 1..Len(src.recipes) :
                                      src.recipes[r].id = l.recipe_id)
    IN  [i \in 1..Len(links) |->
            LET e == CHOOSE e \in 1..Len(src.endpoints) :
                         src.endpoints[e].id = links[i].endpoint_id
                r == CHOOSE r \in 1..Len(src.recipes) :
                         src.recipes[r].id = links[i].recipe_id
            IN  [recipe_uid |-> src.recipes[r].recipe_uid,
                 recipe_title |-> src.recipes[r].title,
                 url |-> src.endpoints[e].url,
                 feed_title |-> links[i].feed_title]]

RECURSIVE GroupByUid(_)
\* grouped.setdefault(row["recipe_uid"], []).append(dict(row)), in row order
GroupByUid(rows) ==
    IF rows = <<>> THEN <<>>
    ELSE LET uid == rows[1].recipe_uid
         IN  <<[recipe_uid |-> uid,
                feeds |-> SelectSeq(rows, LAMBDA r : r.recipe_uid = uid)]>>
             \o GroupByUid(SelectSeq(rows, LAMBDA r : r.recipe_uid # uid))

\* _load_feed_endpoints(conn): the items of the dict, in insertion order
_load_feed_endpoints(src) == GroupByUid(OrderByUid(FeedRows(src)))

\* "if recipe_filter and recipe_uid not in recipe_filter: continue"
Skipped(recipe_filter, recipe_uid) == recipe_filter # {} /\ recipe_uid \notin recipe_filter

STATUS_OK == <<"o","k">>
STATUS_ERROR == <<"e","r","r","o","r">>

\* f"{type(exc).__name__}: {exc}"
ErrorText(exc) == exc.type \o <<":"," ">> \o exc.msg

\* an except clause that swallows the exception
Failure_swallowed(run, exc) == run

\* an except clause that also forgets the insertions counted so far
Failure_resets_count(run, exc) == [run EXCEPT !.status = STATUS_ERROR, !.error = ErrorText(exc), !.article_count = 0]

\* the except clause of a fetch loop: status and error of the run in flight
Failure(run, exc) == [run EXCEPT !.status = STATUS_ERROR, !.error = ErrorText(exc)]

RECURSIVE RssEntries(_, _, _, _, _, _)
\* the loop "for idx, entry in enumerate(entries)" of _run_rss_mode from position i:
\* the articles table, the clock and article_count after it
RssEntries(entries, i, max_articles, feed, feed_title, st) ==
    IF i > Len(entries) \/ i - 1 >= max_articles THEN st
    ELSE LET entry == entries[i]
             html_src == IF Truthy(entry.content) THEN entry.content
                         ELSE IF Truthy(entry.summary) THEN entry.summary ELSE <<>>
             payload ==
                 [recipe_uid |-> feed.recipe_uid,
                  recipe_title |-> feed.recipe_title,
                  feed_title |-> feed_title,
                  article_title |-> entry.title,
                  article_url |-> entry.link,
                  article_guid |-> entry.guid,
                  author |-> NULL,
                  summary |-> entry.summary,
                  published |-> entry.published,
                  fetched_at |-> st.clock + 1,
                  content_html |-> html_src,
                  content_text |-> IF html_src # <<>> THEN html_to_text(html_src) ELSE <<>>,
                  content_hash |-> IF html_src # <<>> THEN _hash_text(html_src) ELSE NULL,
                  fingerprint |-> _fingerprint(<<feed.recipe_uid, entry.link, entry.title,
                                                 entry.published>>)]
         IN  RssEntries(entries, i + 1, max_articles, feed, feed_title,
                        [articles |-> _insert_article(st.articles, payload),
                         clock |-> st.clock + 1,
                         article_count |-> st.article_count + 1])

RECURSIVE RecipeArticles(_, _, _, _, _)
\* the loop "for article_index, article in enumerate(feed)" of _run_recipe_mode from
\* position i. An article is [title, url, orig_url, id, author, summary, content,
\* localtime, page], page being the text of its downloaded index.html, NULL if the
\* article was not downloaded or the file is missing
RecipeArticles(feed, i, max_articles, recipe, st) ==
    IF i > Len(feed.articles) \/ i - 1 >= max_articles THEN st
    ELSE LET article == feed.articles[i]
             html_src == IF Truthy(article.page) THEN article.page
                         ELSE IF Truthy(article.content) THEN article.content
                         ELSE IF Truthy(article.summary) THEN article.summary ELSE <<>>
             published == IF Truthy(article.localtime) THEN article.localtime ELSE NULL
             article_url == IF Truthy(article.orig_url) THEN article.orig_url
                            ELSE article.url
             payload ==
                 [recipe_uid |-> recipe.recipe_uid,
                  recipe_title |-> recipe.title,
                  feed_title |-> feed.title,
                  article_title |-> article.title,
                  article_url |-> article_url,
                  article_guid |-> article.id,
                  author |-> article.author,
                  summary |-> article.summary,
                  published |-> published,
                  fetched_at |-> st.clock + 1,
                  content_html |-> html_src,
                  content_text |-> IF html_src # <<>> THEN html_to_text(html_src) ELSE <<>>,
                  content_hash |-> IF html_src # <<>> THEN _hash_text(html_src) ELSE NULL,
                  fingerprint |-> _fingerprint(<<recipe.recipe_uid, article_url,
                                                 article.title, published>>)]
         IN  RecipeArticles(feed, i + 1, max_articles, recipe,
                            [articles |-> _insert_article(st.articles, payload),
                             clock |-> st.clock + 1,
                             article_count |-> st.article_count + 1])

RECURSIVE RecipeFeeds(_, _, _, _)
\* the loop "for feed_index, feed in enumerate(recipe_obj.feed_objects or [])"
RecipeFeeds(feed_objects, max_articles, recipe, st) ==
    IF feed_objects = <<>> THEN st
    ELSE RecipeFeeds(Tail(feed_objects), max_articles, recipe,
                     RecipeArticles(Head(feed_objects), 1, max_articles, recipe, st))

----------------------------------------------------------------------------
(* State shared by the specifications *)

NoCur == [none |-> TRUE]
NoFold == [kind |-> "none"]
EmptySources == [recipes |-> <<>>, endpoints |-> <<>>, recipe_endpoints |-> <<>>]
EmptyNews == [runs |-> <<>>, articles |-> <<>>]

\* connect() + init_sources_db() / init_news_db() on fresh files
StoresEmpty ==
    /\ recipes = <<>> /\ endpoints = <<>> /\ recipe_endpoints = <<>>
    /\ sources_durable = EmptySources
    /\ runs = <<>> /\ articles = <<>>
    /\ news_durable = EmptyNews
    /\ clock = 0
    /\ latest = <<>>

FoldIdle == foldNode = NoFold /\ foldEnv = <<>> /\ foldResult = NoFold
NoCall == [fn |-> "none"]
CallIdle == call = NoCall /\ result = NoCall

----------------------------------------------------------------------------
(* extract_sources.py: the extraction pass *)

BUILTIN_PREFIX == <<"b","u","i","l","t","i","n",":">>
RECIPE_SUFFIX == <<".","r","e","c","i","p","e">>

\* build_recipe_uid(path, recipes_dir)
build_recipe_uid(stem) == BUILTIN_PREFIX \o stem

\* sha256_file(path)
sha256_file(doc) == _hash_text(doc.text)

\* the payload without the file name as the title of an untitled recipe
RecipePayload_no_fallback(doc, meta, error, now) ==
    [recipe_uid |-> build_recipe_uid(doc.stem),
     title |-> meta.title,
     author |-> meta.author,
     description |-> meta.description,
     language |-> meta.language,
     publication_type |-> meta.publication_type,
     needs_subscription |-> meta.needs_subscription,
     class_name |-> meta.class_name,
     file_path |-> doc.stem \o RECIPE_SUFFIX,
     file_sha256 |-> sha256_file(doc),
     parse_status |-> IF Truthy(error) THEN STATUS_ERROR ELSE STATUS_OK,
     parse_error |-> error,
     last_parsed |-> now]

\* the payload main builds for a document from what parse_recipe_file returned
RecipePayload(doc, meta, error, now) ==
    [recipe_uid |-> build_recipe_uid(doc.stem),
     title |-> IF Truthy(meta.title) THEN meta.title ELSE doc.stem,
     author |-> meta.author,
     description |-> meta.description,
     language |-> meta.language,
     publication_type |-> meta.publication_type,
     needs_subscription |-> meta.needs_subscription,
     class_name |-> meta.class_name,
     file_path |-> doc.stem \o RECIPE_SUFFIX,
     file_sha256 |-> sha256_file(doc),
     parse_status |-> IF Truthy(error) THEN STATUS_ERROR ELSE STATUS_OK,
     parse_error |-> error,
     last_parsed |-> now]

IngestState(raised, eps, links, clk) ==
    [raised |-> raised, endpoints |-> eps, recipe_endpoints |-> links, clock |-> clk]

\* link_recipe_endpoint for a hit whose endpoint is in eps
LinkHit(hit, url, recipe_id, eps, links, clk) ==
    IngestState(FALSE, eps,
                link_recipe_endpoint(links, recipe_id, endpoint_id_of(eps, url),
                                     hit.source, hit.context, hit.feed_title, hit.raw_url,
                                     hit.confidence, clk + 1),
                clk + 1)

\* the body of the loop "for hit in hits" of main for one hit, url being
\* normalize_url(hit.url): raised when upsert_endpoint's urlsplit raises ValueError
IngestHit(hit, url, recipe_id, eps, links, clk) ==
    IF ~Truthy(url) THEN IngestState(FALSE, eps, links, clk)
    ELSE IF urlsplit(url).raised THEN IngestState(TRUE, eps, links, clk)
    ELSE LinkHit(hit, url, recipe_id,
                 upsert_endpoint(eps, url,
                                 IF Truthy(hit.url_type) THEN hit.url_type
                                 ELSE classify_url(url, hit.source, NULL)),
                 links, clk)

RECURSIVE IngestHits(_, _, _)
\* the loop "for hit in hits" of main from state st on: it ends at the first hit
\* that raises
IngestHits(hits, recipe_id, st) ==
    IF hits = <<>> \/ st.raised THEN st
    ELSE IngestHits(Tail(hits), recipe_id,
                    IngestHit(Head(hits), normalize_url(Head(hits).url), recipe_id,
                              st.endpoints, st.recipe_endpoints, st.clock))

----------------------------------------------------------------------------
(* The documents of the modelled recipes directory *)

\* class A(BasicNewsRecipe): /  title='Ex' /  feeds=[('T','http://e/t.rss')]
DocGood ==
    [stem |-> <<>>, text |-> <<"c","l","a","s","s"," ","A","(","B","a",
    "s","i","c","N","e","w","s","R","e","c","i","p","e",")",":","\n"," ","t","i",
    "t","l","e","=","'","E","x","'","\n"," ","f","e","e","d","s","=","[","(","'",
    "T","'",",","'","h","t","t","p",":","/","/","e","/","t",".","r","s","s","'",")",
    "]","\n">>, syntax_ok |-> TRUE, syntax_msg |-> <<>>,
    body |-> <<ClassDef(<<"A">>, <<Name(<<"B","a","s","i","c","N","e","w","s","R",
    "e","c","i","p","e">>)>>, <<Assign(<<Name(<<"t","i","t","l","e">>)>>,
    Constant(VStr(<<"E","x">>))),Assign(<<Name(<<"f","e","e","d","s">>)>>,
    ListNode(<<TupleNode(<<Constant(VStr(<<"T">>)),Constant(VStr(<<"h","t","t","p",
    ":","/","/","e","/","t",".","r","s","s">>))>>)>>))>>)>>]

\* def f(: / #http://e/t.rss
DocSyntaxError ==
    [stem |-> <<>>, text |-> <<"d","e","f"," ","f","(",":","\n",
    "#","h","t","t","p",":","/","/","e","/","t",".","r","s","s">>,
    syntax_ok |-> FALSE, syntax_msg |-> <<"i","n","v","a","l","i","d"," ","s","y",
    "n","t","a","x"," ","(","<","u","n","k","n","o","w","n",">",","," ","l","i","n",
    "e"," ","1",")">>, body |-> <<>>]

\* title='M' / u='http://e/api/'
DocNoClass ==
    [stem |-> <<>>, text |-> <<"t","i","t","l","e","=","'","M","'",
    "\n","u","=","'","h","t","t","p",":","/","/","e","/","a","p","i","/","'","\n">>,
    syntax_ok |-> TRUE, syntax_msg |-> <<>>, body |-> <<Assign(<<Name(<<"t","i","t",
    "l","e">>)>>, Constant(VStr(<<"M">>))),Assign(<<Name(<<"u">>)>>,
    Constant(VStr(<<"h","t","t","p",":","/","/","e","/","a","p","i","/">>)))>>]

\* x='a'+b'b'
DocTypeError ==
    [stem |-> <<>>, text |-> <<"x","=","'","a","'","+","b","'","b",
    "'","\n">>, syntax_ok |-> TRUE, syntax_msg |-> <<>>,
    body |-> <<Assign(<<Name(<<"x">>)>>, BinOp("Add", Constant(VStr(<<"a">>)),
    Constant(VBytes(<<"b">>))))>>]

\* r='http://[^/]+'
DocBracket ==
    [stem |-> <<>>, text |-> <<"r","=","'","h","t","t","p",":","/",
    "/","[","^","/","]","+","'","\n">>, syntax_ok |-> TRUE, syntax_msg |-> <<>>,
    body |-> <<Assign(<<Name(<<"r">>)>>, Constant(VStr(<<"h","t","t","p",":","/",
    "/","[","^","/","]","+">>)))>>]


\* class A(BasicNewsRecipe): /  feeds=['http://e/n'] /  index_url='http://e/n'
DocFeedAttr ==
    [stem |-> <<>>, text |-> <<"c","l","a","s","s"," ","A","(","B","a","s","i","c","N","e","w","s","R","e","c","i","p","e",")",":","\n"," ","f","e","e","d","s","=","[","'","h","t","t","p",":","/","/","e","/","n","'","]","\n"," ","i","n","d","e","x","_","u","r","l","=","'","h","t","t","p",":","/","/","e","/","n","'","\n">>,
     syntax_ok |-> TRUE, syntax_msg |-> <<>>,
     body |-> <<ClassDef(<<"A">>, <<Name(<<"B","a","s","i","c","N","e","w","s","R","e","c","i","p","e">>)>>,
        <<Assign(<<Name(<<"f","e","e","d","s">>)>>, ListNode(<<Constant(VStr(<<"h","t","t","p",":","/","/","e","/","n">>))>>)),
          Assign(<<Name(<<"i","n","d","e","x","_","u","r","l">>)>>, Constant(VStr(<<"h","t","t","p",":","/","/","e","/","n">>)))>>)>>]

DocSet == {DocGood, DocSyntaxError, DocNoClass, DocTypeError, DocBracket, DocFeedAttr}

MaxDocs == 2
MaxPasses == 2

\* the file name stems a recipes directory may hold
RecipeStems == { <<"a">>, <<"a","-","b">>, <<"b">> }

\* Path.__lt__ for two files of one directory: the file names compare as text
PathLess(a, b) == TextLess(a \o RECIPE_SUFFIX, b \o RECIPE_SUFFIX)

RECURSIVE SortedGlob(_)
\* sorted(recipes_dir.glob("*.recipe")) for a directory holding the stems S
SortedGlob(S) ==
    IF S = {} THEN <<>>
    ELSE LET m == CHOOSE a \in S : \A b \in S \ {a} : PathLess(a, b)
         IN  <<m>> \o SortedGlob(S \ {m})

\* the documents main iterates over, for every directory of at most MaxDocs files
Corpora ==
    UNION { { [i \in 1..n |-> [f[i] EXCEPT !.stem = SortedGlob(S)[i]]] :
                f \in [1..n -> DocSet],
                S \in {T \in SUBSET RecipeStems : Cardinality(T) = n} }
            : n \in 1..MaxDocs }

----------------------------------------------------------------------------
(* Processes, connections and transactions *)

SourcesView ==
    [recipes |-> recipes, endpoints |-> endpoints, recipe_endpoints |-> recipe_endpoints]
NewsView == [runs |-> runs, articles |-> articles]

\* a commit that is lost
commit_lost(durable, view) == durable

\* conn.commit(): the committed tables become what the connection sees
commit(durable, view) == view

\* no process is running: the files hold the committed tables only
Idle == pc \in {"idle", "extracted", "fetched", "crashed", "aborted"}

\* the history of a pass: its number and kind, its options, the recipes it has fully
\* processed, the stores as it found them, the store it writes (sources.db for an
\* extraction pass, news.db for a fetch pass) as it was when the last of those
\* recipes was finished, and the try blocks it has run
NoPass ==
    [pass |-> 0, kind |-> "none", uids |-> <<>>, start |-> EmptySources,
     start_news |-> EmptyNews, boundary |-> EmptyNews, max_articles |-> 0,
     recipe_filter |-> {}, log |-> <<>>]

\* the process dies with its transactions open: both files fall back to what was
\* committed
Rollback ==
    /\ recipes' = sources_durable.recipes
    /\ endpoints' = sources_durable.endpoints
    /\ recipe_endpoints' = sources_durable.recipe_endpoints
    /\ runs' = news_durable.runs
    /\ articles' = news_durable.articles
    /\ UNCHANGED <<sources_durable, news_durable>>

PassFrame == UNCHANGED <<corpus, latest, foldNode, foldEnv, foldResult, call, result>>

----------------------------------------------------------------------------
(* extract_sources.main, one step per half of a loop iteration *)

\* main up to the loop: connect(db_path), init_sources_db(conn)
ExtractStart ==
    /\ Idle /\ done.pass < MaxPasses
    /\ pc' = "extract" /\ idx' = 1 /\ cur' = NoCur
    /\ done' = [NoPass EXCEPT !.pass = done.pass + 1, !.kind = "extract",
                              !.start = SourcesView, !.start_news = NewsView,
                              !.boundary = SourcesView]
    /\ lastOp' = [op |-> "extract_start"]
    /\ UNCHANGED <<recipes, endpoints, recipe_endpoints, sources_durable, runs,
                   articles, news_durable, clock>>
    /\ PassFrame

\* an uncaught exception ends the process with nothing committed
Abort(exc) ==
    /\ Rollback
    /\ pc' = "aborted" /\ cur' = NoCur
    /\ lastOp' = [op |-> "abort", exc |-> exc, at |-> idx]
    /\ UNCHANGED <<clock, idx, done>>

\* lines 38-55 of main, payload being built from what parse_recipe_file returned
UpsertParsed(parsed, payload) ==
    /\ recipes' = upsert_recipe(recipes, payload)
    /\ clock' = clock + 1
    /\ cur' = [recipe_uid |-> payload.recipe_uid,
               recipe_id |-> recipe_id_of(recipes', payload.recipe_uid),
               meta |-> parsed.meta, hits |-> parsed.hits, error |-> parsed.error]
    /\ lastOp' = [op |-> "upsert_recipe", payload |-> payload, before |-> recipes,
                  repeat |-> FALSE, id |-> cur'.recipe_id]
    /\ UNCHANGED <<endpoints, recipe_endpoints, sources_durable, runs, articles,
                   news_durable, pc, idx, done>>

AfterParse(doc, parsed) ==
    IF parsed.outcome = "raise" THEN Abort(parsed.exc)
    ELSE UpsertParsed(parsed, RecipePayload(doc, parsed.meta, parsed.error, clock + 1))

\* the loop body up to upsert_recipe: an exception leaving parse_recipe_file is not
\* caught
ExtractRecipe ==
    /\ pc = "extract" /\ cur = NoCur /\ idx <= Len(corpus)
    /\ AfterParse(corpus[idx], parse_recipe_file(corpus[idx]))
    /\ PassFrame

AfterIngest(r) ==
    IF r.raised THEN Abort("ValueError")
    ELSE /\ endpoints' = r.endpoints
         /\ recipe_endpoints' = r.recipe_endpoints
         /\ clock' = r.clock
         /\ idx' = idx + 1 /\ cur' = NoCur
         /\ done' = [done EXCEPT !.uids = Append(@, cur.recipe_uid),
                                 !.boundary = [recipes |-> recipes,
                                               endpoints |-> r.endpoints,
                                               recipe_endpoints |-> r.recipe_endpoints]]
         /\ lastOp' = [op |-> "ingest_hits", recipe_uid |-> cur.recipe_uid,
                       hits |-> cur.hits]
         /\ UNCHANGED <<recipes, sources_durable, runs, articles, news_durable, pc>>

\* the loop "for hit in hits": a ValueError leaving upsert_endpoint is not caught
ExtractHits ==
    /\ pc = "extract" /\ cur # NoCur
    /\ AfterIngest(IngestHits(cur.hits, cur.recipe_id,
                              IngestState(FALSE, endpoints, recipe_endpoints, clock)))
    /\ PassFrame

\* conn.commit() after the loop, and the process exits
ExtractCommit ==
    /\ pc = "extract" /\ cur = NoCur /\ idx > Len(corpus)
    /\ sources_durable' = commit(sources_durable, SourcesView)
    /\ recipes' = sources_durable'.recipes
    /\ endpoints' = sources_durable'.endpoints
    /\ recipe_endpoints' = sources_durable'.recipe_endpoints
    /\ pc' = "extracted"
    /\ lastOp' = [op |-> "extract_commit"]
    /\ UNCHANGED <<runs, articles, news_durable, clock, idx, cur, done>>
    /\ PassFrame

\* the running process is killed
Crash ==
    /\ ~Idle
    /\ Rollback
    /\ pc' = "crashed"
    /\ lastOp' = [op |-> "crash", during |-> pc, in_flight |-> cur # NoCur,
                  lost |-> SourcesView # sources_durable \/ NewsView # news_durable]
    /\ UNCHANGED <<clock, idx, cur, done>>
    /\ PassFrame

----------------------------------------------------------------------------
(* What the network and the execution engine may answer *)

Leaf(tag, text) == Element(tag, text, <<>>, <<>>)

\* an RSS 2.0 document with a channel title and two items, the second with
\* content:encoded
RssTwoItems ==
    [wellformed |-> TRUE,
     root |-> Element(RSS_ROOT, NULL, <<>>,
        <<Element(<<"c","h","a","n","n","e","l">>, NULL, <<>>,
            <<Leaf(<<"t","i","t","l","e">>, <<"N">>),
              Element(<<"i","t","e","m">>, NULL, <<>>,
                 <<Leaf(<<"t","i","t","l","e">>, <<"a">>),
                   Leaf(<<"l","i","n","k">>, <<"h","t","t","p",":","/","/","e","/","1">>),
                   Leaf(<<"d","e","s","c","r","i","p","t","i","o","n">>,
                        <<"s"," "," ","1">>)>>),
              Element(<<"i","t","e","m">>, NULL, <<>>,
                 <<Leaf(<<"t","i","t","l","e">>, <<"b">>),
                   Leaf(<<"{","c","}","e","n","c","o","d","e","d">>,
                        <<"f","u","l","l","\n","b">>)>>)>>)>>)]

\* an Atom document without a feed title, one entry with an alternate link
AtomOneEntry ==
    [wellformed |-> TRUE,
     root |-> Element(ATOM_ROOT, NULL, <<>>,
        <<Element(<<"e","n","t","r","y">>, NULL, <<>>,
            <<Leaf(<<"t","i","t","l","e">>, <<"c">>),
              Element(<<"l","i","n","k">>, NULL,
                      <<[name |-> <<"h","r","e","f">>,
                         val |-> <<"h","t","t","p",":","/","/","e","/","3">>]>>, <<>>),
              Leaf(<<"u","p","d","a","t","e","d">>, <<"u">>)>>)>>)]

\* str(URLError("timed out"))
URLOPEN_TIMED_OUT ==
    <<"<","u","r","l","o","p","e","n"," ","e","r","r","o","r"," ","t","i","m","e","d"," ",
      "o","u","t",">">>

Malformed == [wellformed |-> FALSE, root |-> Leaf(<<>>, NULL)]

\* what fetch_feed_xml(url) does: raises exc, or returns payload
FeedResponses ==
    { [exc |-> Exc(<<"U","R","L","E","r","r","o","r">>, URLOPEN_TIMED_OUT),
       payload |-> Malformed],
      [exc |-> NoExc, payload |-> Malformed],
      [exc |-> NoExc, payload |-> RssTwoItems],
      [exc |-> NoExc, payload |-> AtomOneEntry] }

NO_RECIPE_CLASS ==
    <<"N","o"," ","r","e","c","i","p","e"," ","c","l","a","s","s"," ","f","o","u","n","d">>

\* what compile_recipe(src) and recipe_obj.download() do: raise exc, or leave
\* feed_objects
EngineOutcomes ==
    { [exc |-> Exc(<<"R","u","n","t","i","m","e","E","r","r","o","r">>, NO_RECIPE_CLASS),
       feed_objects |-> <<>>],
      [exc |-> Exc(<<"O","S","E","r","r","o","r">>, <<"d","o","w","n">>),
       feed_objects |-> <<>>],
      [exc |-> NoExc,
       feed_objects |->
          <<[title |-> <<"N">>,
             articles |->
                <<[title |-> <<"a">>, url |-> <<"h","t","t","p",":","/","/","e","/","1">>,
                   orig_url |-> NULL, id |-> NULL, author |-> <<"w">>,
                   summary |-> <<"s">>, content |-> NULL, localtime |-> <<"d">>,
                   page |-> <<"p"," ","1">>],
                  [title |-> <<"b">>, url |-> <<"h","t","t","p",":","/","/","e","/","2">>,
                   orig_url |-> <<"h","t","t","p",":","/","/","o","/","2">>, id |-> NULL,
                   author |-> NULL, summary |-> <<"s">>, content |-> NULL,
                   localtime |-> NULL, page |-> NULL]>>]>>] }

DEFAULT_MAX_ARTICLES == 100
SmallMaxArticles == 1

\* --recipe: no filter, or one recipe only
RecipeFilters == { {}, {build_recipe_uid(<<"a">>)} }

----------------------------------------------------------------------------
(* fetch_news.main, _run_rss_mode and _run_recipe_mode *)

NewRun(started_at) ==
    [status |-> STATUS_OK, error |-> NULL, started_at |-> started_at, article_count |-> 0]

\* main up to run_once, for --mode rss or --mode recipe: connect, init_news_db, and
\* the query that opens the loop
FetchStart ==
    /\ Idle /\ done.pass < MaxPasses
    /\ \E mode \in {"rss", "recipe"}, m \in {SmallMaxArticles, DEFAULT_MAX_ARTICLES},
          f \in RecipeFilters :
          /\ pc' = mode
          /\ done' = [NoPass EXCEPT !.pass = done.pass + 1, !.kind = mode,
                                    !.start = SourcesView, !.start_news = NewsView,
                                    !.boundary = NewsView, !.max_articles = m,
                                    !.recipe_filter = f]
    /\ idx' = 1 /\ cur' = NoCur
    /\ lastOp' = [op |-> "fetch_start"]
    /\ UNCHANGED <<recipes, endpoints, recipe_endpoints, sources_durable, runs,
                   articles, news_durable, clock>>
    /\ PassFrame

\* the head of the loop over feed_map.items(): the filter, started_at
RssBegin ==
    /\ pc = "rss" /\ cur = NoCur
    /\ LET feed_map == _load_feed_endpoints(SourcesView)
       IN  /\ idx <= Len(feed_map)
           /\ IF Skipped(done.recipe_filter, feed_map[idx].recipe_uid)
              THEN /\ idx' = idx + 1
                   /\ lastOp' = [op |-> "skip", recipe_uid |-> feed_map[idx].recipe_uid]
                   /\ UNCHANGED <<cur, clock>>
              ELSE /\ cur' = [recipe_uid |-> feed_map[idx].recipe_uid,
                              feeds |-> feed_map[idx].feeds, fi |-> 1,
                              run |-> NewRun(clock + 1)]
                   /\ clock' = clock + 1
                   /\ lastOp' = [op |-> "begin", recipe_uid |-> feed_map[idx].recipe_uid]
                   /\ UNCHANGED idx
    /\ UNCHANGED <<recipes, endpoints, recipe_endpoints, sources_durable, runs,
                   articles, news_durable, pc, done>>
    /\ PassFrame

\* news.db and the counters of the run in flight, as a try block finds them
Here == [articles |-> articles, clock |-> clock, article_count |-> cur.run.article_count]

\* the outcome of one try block: exc is the exception its except clause caught
\* (NoExc if none), st what its inserts left, offered the number of entries of each
\* feed the block looped over
TryDone(exc, st, offered) ==
    /\ cur' = [cur EXCEPT !.fi = cur.fi + 1,
                          !.run = IF exc # NoExc THEN Failure(cur.run, exc)
                                  ELSE [cur.run EXCEPT !.article_count = st.article_count]]
    /\ articles' = st.articles
    /\ clock' = st.clock
    /\ done' = [done EXCEPT !.log = Append(@, [recipe_uid |-> cur.recipe_uid,
                                               feed |-> cur.fi, exc |-> exc,
                                               offered |-> offered])]
    /\ lastOp' = [op |-> "try", recipe_uid |-> cur.recipe_uid, exc |-> exc,
                  before |-> articles]

\* the try block of _run_rss_mode for one feed: fetch_exc is what fetch_feed_xml
\* raised, parsed what parse_feed made of what it returned
AfterFetch(fetch_exc, feed, parsed) ==
    IF fetch_exc # NoExc THEN TryDone(fetch_exc, Here, <<>>)
    ELSE IF parsed.exc # NoExc THEN TryDone(parsed.exc, Here, <<>>)
    ELSE TryDone(NoExc,
                 RssEntries(parsed.entries, 1, done.max_articles, feed,
                            IF parsed.title = NULL THEN feed.feed_title ELSE parsed.title,
                            Here),
                 <<Len(parsed.entries)>>)

\* one iteration of "for feed in feeds": the try block and its except clause
RssFeed ==
    /\ pc = "rss" /\ cur # NoCur /\ cur.fi <= Len(cur.feeds)
    /\ \E resp \in FeedResponses :
          AfterFetch(resp.exc, cur.feeds[cur.fi], parse_feed(resp.payload))
    /\ UNCHANGED <<recipes, endpoints, recipe_endpoints, sources_durable, runs,
                   news_durable, pc, idx>>
    /\ PassFrame

\* the end of a loop iteration of either mode: finished_at, record_run, commit
FinishRun ==
    /\ runs' = record_run(runs, cur.recipe_uid, cur.run.status, cur.run.started_at,
                          clock + 1, cur.run.error, cur.run.article_count)
    /\ clock' = clock + 1
    /\ news_durable' = commit(news_durable, [runs |-> runs', articles |-> articles])
    /\ idx' = idx + 1 /\ cur' = NoCur
    /\ done' = [done EXCEPT !.uids = Append(@, cur.recipe_uid),
                            !.boundary = [runs |-> runs', articles |-> articles]]
    /\ lastOp' = [op |-> "record_run", recipe_uid |-> cur.recipe_uid, before |-> runs]
    /\ UNCHANGED <<recipes, endpoints, recipe_endpoints, sources_durable, articles, pc>>
    /\ PassFrame

RssFinish ==
    /\ pc = "rss" /\ cur # NoCur /\ cur.fi > Len(cur.feeds)
    /\ FinishRun

\* the head of the loop over _load_recipes(sources_conn): the filter, started_at
RecipeBegin ==
    /\ pc = "recipe" /\ cur = NoCur
    /\ LET rows == _load_recipes(SourcesView)
       IN  /\ idx <= Len(rows)
           /\ IF Skipped(done.recipe_filter, rows[idx].recipe_uid)
              THEN /\ idx' = idx + 1
                   /\ lastOp' = [op |-> "skip", recipe_uid |-> rows[idx].recipe_uid]
                   /\ UNCHANGED <<cur, clock>>
              ELSE /\ cur' = [recipe_uid |-> rows[idx].recipe_uid, recipe |-> rows[idx],
                              fi |-> 0, run |-> NewRun(clock + 1)]
                   /\ clock' = clock + 1
                   /\ lastOp' = [op |-> "begin", recipe_uid |-> rows[idx].recipe_uid]
                   /\ UNCHANGED idx
    /\ UNCHANGED <<recipes, endpoints, recipe_endpoints, sources_durable, runs,
                   articles, news_durable, pc, done>>
    /\ PassFrame

\* the try block of _run_recipe_mode and its except clause
RecipeRun ==
    /\ pc = "recipe" /\ cur # NoCur /\ cur.fi = 0
    /\ \E out \in EngineOutcomes :
          IF out.exc # NoExc THEN TryDone(out.exc, Here, <<>>)
          ELSE TryDone(NoExc,
                       RecipeFeeds(out.feed_objects, done.max_articles, cur.recipe, Here),
                       [k \in 1..Len(out.feed_objects) |->
                           Len(out.feed_objects[k].articles)])
    /\ UNCHANGED <<recipes, endpoints, recipe_endpoints, sources_durable, runs,
                   news_durable, pc, idx>>
    /\ PassFrame

RecipeFinish ==
    /\ pc = "recipe" /\ cur # NoCur /\ cur.fi = 1
    /\ FinishRun

\* the selected recipes of the running fetch pass, in loop order
Selected ==
    LET all == IF done.kind = "rss" THEN _load_feed_endpoints(done.start)
               ELSE IF done.kind = "recipe" THEN _load_recipes(done.start)
               ELSE <<>>
        kept == SelectSeq(all, LAMBDA r : ~Skipped(done.recipe_filter, r.recipe_uid))
    IN  [i \in 1..Len(kept) |-> kept[i].recipe_uid]

\* the loop is exhausted: run_once returns and the process exits
FetchEnd ==
    /\ cur = NoCur
    /\ \/ pc = "rss" /\ idx > Len(_load_feed_endpoints(SourcesView))
       \/ pc = "recipe" /\ idx > Len(_load_recipes(SourcesView))
    /\ pc' = "fetched"
    /\ lastOp' = [op |-> "fetch_end"]
    /\ UNCHANGED <<recipes, endpoints, recipe_endpoints, sources_durable, runs,
                   articles, news_durable, clock, idx, cur, done>>
    /\ PassFrame

Init ==
    /\ StoresEmpty
    /\ FoldIdle /\ CallIdle
    /\ pc = "idle" /\ corpus \in Corpora /\ idx = 0 /\ cur = NoCur /\ done = NoPass
    /\ lastOp = [op |-> "init"]

Next ==
    \/ ExtractStart
    \/ ExtractRecipe
    \/ ExtractHits
    \/ ExtractCommit
    \/ FetchStart
    \/ RssBegin
    \/ RssFeed
    \/ RssFinish
    \/ RecipeBegin
    \/ RecipeRun
    \/ RecipeFinish
    \/ FetchEnd
    \/ Crash

Spec == Init /\ [][Next]_vars

----------------------------------------------------------------------------
(* SpecFold: the constant folder applied to one node in one environment *)

FoldLeaves ==
    { Constant(VStr(<<"a">>)), Constant(VStr(<<"{","}">>)), Constant(VStr(<<"{","x","}">>)),
      Constant(VStr(<<"{","1","}">>)), Constant(VStr(<<"{">>)),
      Constant(VBytes(<<"b">>)), Constant(VInt(<<"1">>)), Constant(VNone),
      Name(<<"x">>), Name(<<"y">>),
      ListNode(<<Constant(VStr(<<"a">>))>>), TupleNode(<<Constant(VStr(<<"a">>))>>),
      OtherExpr }

FoldFormatCalls ==
    { Call(Attribute(b, ATTR_FORMAT), <<a>>, <<>>) : b \in FoldLeaves, a \in FoldLeaves }
    \cup { Call(Attribute(b, ATTR_FORMAT), <<>>, <<Keyword(<<"x">>, a)>>) :
             b \in FoldLeaves, a \in FoldLeaves }

FoldSums == { BinOp("Add", l, r) : l \in FoldLeaves, r \in FoldLeaves }

\* a name no environment binds, and composites with it beside another element
FoldUnbound == Name(<<"z">>)
FoldSiblings ==
    { Constant(VStr(<<"a">>)), Constant(VInt(<<"1">>)),
      BinOp("Add", Constant(VStr(<<"a">>)), Constant(VBytes(<<"b">>))) }
FoldComposites ==
    UNION { { TupleNode(<<FoldUnbound, s>>), ListNode(<<s, FoldUnbound>>),
              JoinedStr(<<FormattedValue(FoldUnbound), FormattedValue(s)>>),
              JoinedStr(<<FormattedValue(s), FormattedValue(FoldUnbound)>>),
              Call(Attribute(Constant(VStr(<<"{","}","{","}">>)), ATTR_FORMAT),
                   <<FoldUnbound, s>>, <<>>),
              Call(Attribute(Constant(VStr(<<"{","}","{","x","}">>)), ATTR_FORMAT),
                   <<s>>, <<Keyword(<<"x">>, FoldUnbound)>>),
              Call(Attribute(s, ATTR_FORMAT), <<>>, <<>>),
              Call(Attribute(s, <<"u","p","p","e","r">>), <<>>, <<>>),
              Call(Name(<<"f">>), <<s>>, <<>>) } : s \in FoldSiblings }

FoldNodes ==
    FoldLeaves \cup FoldSums \cup FoldFormatCalls \cup FoldComposites
    \cup { BinOp("Sub", Constant(VStr(<<"a">>)), Constant(VStr(<<"a">>))) }
    \cup { JoinedStr(<<Constant(VStr(<<"a">>)), FormattedValue(l)>>) : l \in FoldLeaves }
    \cup { ListNode(<<n>>) : n \in FoldSums }

FoldEnvs ==
    { <<>>,
      <<[name |-> <<"x">>, val |-> VStr(<<"v">>)]>>,
      <<[name |-> <<"x">>, val |-> VBytes(<<"w">>)],
        [name |-> <<"y">>, val |-> VList(<<VStr(<<"a">>)>>)]>> }

FoldInit ==
    /\ StoresEmpty
    /\ pc = "fold" /\ corpus = <<>> /\ idx = 0 /\ cur = NoCur /\ done = NoPass
    /\ lastOp = [op |-> "init"]
    /\ foldNode \in FoldNodes
    /\ foldEnv \in FoldEnvs
    /\ foldResult = NoFold
    /\ CallIdle

\* one call _eval_node(node, constants)
Fold ==
    /\ pc = "fold"
    /\ foldResult' = _eval_node(foldNode, foldEnv)
    /\ pc' = "folded"
    /\ lastOp' = [op |-> "fold"]
    /\ UNCHANGED <<recipes, endpoints, recipe_endpoints, sources_durable, runs, articles,
                   news_durable, clock, corpus, idx, cur, done, latest, foldNode, foldEnv,
                   call, result>>

FoldNext == Fold

SpecFold == FoldInit /\ [][FoldNext]_vars

\* C6: _eval_node never raises: for every node and environment, a binary addition
\* of any two operand types and every format call included, its outcome is a value
\* or Unknown (None).
C6_FoldNeverRaises == pc = "folded" => ~IsRaise(foldResult)

----------------------------------------------------------------------------
(* SpecDb: the ingestion layer driven call by call *)

MaxDbOps == 3

DbUids == { <<"a">>, <<"b">> }
DbUrls == { <<"h","t","t","p",":","/","/","x","/","r">>,
            <<"h","t","t","p",":","/","/","y","?","q">> }
DbLinkKeys ==
    { [source |-> SRC_LITERAL, context |-> NULL, feed_title |-> NULL],
      [source |-> SRC_FEEDS, context |-> NULL, feed_title |-> <<"T">>],
      [source |-> SRC_ATTR, context |-> <<"u","r","l">>, feed_title |-> <<"T">>] }
DbVariants == { [confidence |-> 60, raw_url |-> <<"r","1">>],
                [confidence |-> 98, raw_url |-> <<"r","2">>] }

\* the payload extract_sources.main builds, with the fields a parse outcome sets
DbPayload(uid, ok) ==
    [recipe_uid |-> uid,
     title |-> IF ok THEN <<"T">> ELSE uid,
     author |-> NULL, description |-> NULL, language |-> NULL,
     publication_type |-> NULL, needs_subscription |-> NULL,
     class_name |-> IF ok THEN <<"C">> ELSE NULL,
     file_path |-> uid, file_sha256 |-> _hash_text(uid),
     parse_status |-> IF ok THEN <<"o","k">> ELSE <<"e","r","r","o","r">>,
     parse_error |-> IF ok THEN NULL ELSE <<"S","y","n","t","a","x","E","r","r","o","r">>,
     last_parsed |-> 0]

DbArticle(uid, title, summary, ts) ==
    [recipe_uid |-> uid, recipe_title |-> NULL, feed_title |-> NULL,
     article_title |-> title, article_url |-> NULL, article_guid |-> NULL,
     author |-> NULL, summary |-> summary, published |-> NULL, fetched_at |-> ts,
     content_html |-> summary, content_text |-> summary,
     content_hash |-> _hash_text(summary),
     fingerprint |-> _fingerprint(<<uid, NULL, title, NULL>>)]

DbInit ==
    /\ StoresEmpty
    /\ FoldIdle /\ CallIdle
    /\ pc = "db" /\ corpus = <<>> /\ idx = 0 /\ cur = NoCur /\ done = <<>>
    /\ lastOp = [op |-> "init"]

DbFrame == UNCHANGED <<sources_durable, news_durable, pc, corpus, cur, done,
                       foldNode, foldEnv, foldResult, call, result>>

DbUpsertRecipe ==
    /\ pc = "db" /\ idx < MaxDbOps
    /\ \E uid \in DbUids, ok \in BOOLEAN :
          LET p == DbPayload(uid, ok)
          IN  /\ recipes' = upsert_recipe(recipes, p)
              /\ latest' = (uid :> p) @@ latest
              /\ lastOp' = [op |-> "upsert_recipe", payload |-> p, before |-> recipes,
                            repeat |-> uid \in DOMAIN latest /\ latest[uid] = p,
                            id |-> recipe_id_of(recipes', uid)]
    /\ idx' = idx + 1
    /\ UNCHANGED <<endpoints, recipe_endpoints, runs, articles, clock>>
    /\ DbFrame

DbUpsertEndpoint ==
    /\ pc = "db" /\ idx < MaxDbOps
    /\ \E url \in DbUrls, ty \in {T_FEED, T_HTML} :
          /\ ~urlsplit(url).raised
          /\ endpoints' = upsert_endpoint(endpoints, url, ty)
          /\ lastOp' = [op |-> "upsert_endpoint", url |-> url, url_type |-> ty,
                        before |-> endpoints, id |-> endpoint_id_of(endpoints', url)]
    /\ idx' = idx + 1
    /\ UNCHANGED <<recipes, recipe_endpoints, runs, articles, clock, latest>>
    /\ DbFrame

DbLink ==
    /\ pc = "db" /\ idx < MaxDbOps
    /\ \E eid \in 1..2, k \in DbLinkKeys, v \in DbVariants :
          /\ recipe_endpoints' =
                link_recipe_endpoint(recipe_endpoints, 1, eid, k.source, k.context,
                                     k.feed_title, v.raw_url, v.confidence, clock + 1)
          /\ lastOp' = [op |-> "link", recipe_id |-> 1, endpoint_id |-> eid, key |-> k,
                        variant |-> v, ts |-> clock + 1, before |-> recipe_endpoints]
    /\ clock' = clock + 1
    /\ idx' = idx + 1
    /\ UNCHANGED <<recipes, endpoints, runs, articles, latest>>
    /\ DbFrame

DbInsertArticle ==
    /\ pc = "db" /\ idx < MaxDbOps
    /\ \E uid \in DbUids, summary \in { <<"s">>, <<"t">> } :
          LET p == DbArticle(uid, <<"A">>, summary, clock + 1)
          IN  /\ articles' = _insert_article(articles, p)
              /\ lastOp' = [op |-> "insert_article", payload |-> p, before |-> articles]
    /\ clock' = clock + 1
    /\ idx' = idx + 1
    /\ UNCHANGED <<recipes, endpoints, recipe_endpoints, runs, latest>>
    /\ DbFrame

DbRecordRun ==
    /\ pc = "db" /\ idx < MaxDbOps
    /\ \E uid \in DbUids :
          /\ runs' = record_run(runs, uid, <<"o","k">>, clock, clock + 1, NULL, 0)
          /\ lastOp' = [op |-> "record_run", recipe_uid |-> uid, before |-> runs]
    /\ clock' = clock + 1
    /\ idx' = idx + 1
    /\ UNCHANGED <<recipes, endpoints, recipe_endpoints, articles, latest>>
    /\ DbFrame

DbNext ==
    \/ DbUpsertRecipe
    \/ DbUpsertEndpoint
    \/ DbLink
    \/ DbInsertArticle
    \/ DbRecordRun

SpecDb == DbInit /\ [][DbNext]_vars

----------------------------------------------------------------------------
(* Claims about the ingestion layer, under SpecDb *)

\* the composite key of a recipe_endpoints row, absent (NULL) parts included
LinkKey(r) == <<r.recipe_id, r.endpoint_id, r.context, r.feed_title, r.source>>

\* C1: after any sequence of link_recipe_endpoint calls the recipe_endpoints table
\* holds at most one row per composite key (recipe_id, endpoint_id, context,
\* feed_title, source), keys with a NULL context or feed_title included.
C1_OneRowPerCompositeKey ==
    \A i, j \in 1..Len(recipe_endpoints) :
        LinkKey(recipe_endpoints[i]) = LinkKey(recipe_endpoints[j]) => i = j

\* C2: a link_recipe_endpoint call for a composite key that already has a row leaves
\* the table with the same rows, the row of that key keeping first_seen, confidence
\* and raw_url and getting last_seen = the time of the call.
C2_RelinkRefreshesOnlyLastSeen ==
    [][ (/\ lastOp'.op = "link"
         /\ \E i \in 1..Len(recipe_endpoints) :
               LinkKey(recipe_endpoints[i]) =
                  <<lastOp'.recipe_id, lastOp'.endpoint_id, lastOp'.key.context,
                    lastOp'.key.feed_title, lastOp'.key.source>>)
        => /\ Len(recipe_endpoints') = Len(recipe_endpoints)
           /\ \A i \in 1..Len(recipe_endpoints) :
                 recipe_endpoints'[i] =
                    IF LinkKey(recipe_endpoints[i]) =
                          <<lastOp'.recipe_id, lastOp'.endpoint_id, lastOp'.key.context,
                            lastOp'.key.feed_title, lastOp'.key.source>>
                    THEN [recipe_endpoints[i] EXCEPT !.last_seen = lastOp'.ts]
                    ELSE recipe_endpoints[i]
      ]_vars

\* C3: the recipes table holds exactly one row per upserted recipe_uid, its non-key
\* fields equal to the most recent payload for that recipe_uid (parse_status and
\* parse_error included), and upserting an identical payload again leaves the
\* table as it was.
C3_RecipesReflectLatestPayload ==
    /\ \A i, j \in 1..Len(recipes) :
          recipes[i].recipe_uid = recipes[j].recipe_uid => i = j
    /\ \A i \in 1..Len(recipes) : recipes[i].recipe_uid \in DOMAIN latest
    /\ \A uid \in DOMAIN latest :
          \E i \in 1..Len(recipes) :
             /\ recipes[i].recipe_uid = uid
             /\ \A c \in RecipeCols : recipes[i][c] = latest[uid][c]
    /\ (lastOp.op = "upsert_recipe" /\ lastOp.repeat) => recipes = lastOp.before

\* a recipe_uid upserted again with a different payload, beside another recipe
C3_Witness ==
    /\ lastOp.op = "upsert_recipe"
    /\ ~lastOp.repeat
    /\ \E i \in 1..Len(lastOp.before) :
          lastOp.before[i].recipe_uid = lastOp.payload.recipe_uid
    /\ recipes # lastOp.before
    /\ Len(recipes) = 2

\* C4: no step modifies or deletes a stored article row, fingerprints stay unique,
\* and inserting an article whose fingerprint is already stored changes nothing.
C4_ArticlesAppendOnly ==
    [][ /\ Len(articles') >= Len(articles)
        /\ \A i \in 1..Len(articles) : articles'[i] = articles[i]
        /\ \A i, j \in 1..Len(articles') :
              articles'[i].fingerprint = articles'[j].fingerprint => i = j
        /\ (/\ lastOp'.op = "insert_article"
            /\ \E i \in 1..Len(articles) :
                  articles[i].fingerprint = lastOp'.payload.fingerprint)
           => articles' = articles
      ]_vars

\* an insert whose fingerprint is stored with another summary and fetched_at
C4_Witness ==
    /\ lastOp.op = "insert_article"
    /\ \E i \in 1..Len(lastOp.before) :
          /\ lastOp.before[i].fingerprint = lastOp.payload.fingerprint
          /\ lastOp.before[i].summary # lastOp.payload.summary
          /\ lastOp.before[i].fetched_at < lastOp.payload.fetched_at
    /\ Len(articles) = 1

----------------------------------------------------------------------------
(* Claims about the analyzer and the extraction pass, under Spec *)

\* the documents the running or last extraction pass has handed to parse_recipe_file
Analysed == IF done.kind = "extract" THEN {i \in 1..Len(corpus) : i <= idx} ELSE {}

\* C5: parse_recipe_file returns (metadata, hits, error-or-none) and never raises,
\* for every document the extraction pass hands to it.
C5_AnalysisNeverRaises ==
    \A i \in Analysed : parse_recipe_file(corpus[i]).outcome = "return"

\* the recipe row of the i-th document, in the given table
RowsOf(tbl, i) ==
    {k \in 1..Len(tbl) : tbl[k].recipe_uid = build_recipe_uid(corpus[i].stem)}

\* the literal scanner's hit is an endpoint linked to the recipe row
HitStored(hit, recipe_id) ==
    \E e \in 1..Len(endpoints) :
        /\ endpoints[e].url = normalize_url(hit.url)
        /\ \E l \in 1..Len(recipe_endpoints) :
              /\ recipe_endpoints[l].recipe_id = recipe_id
              /\ recipe_endpoints[l].endpoint_id = endpoints[e].id
              /\ recipe_endpoints[l].source = SRC_LITERAL

\* C7: when an extraction pass has ended, every document the syntax parser failed on
\* has a recipe row with parse_status "error" and the captured message, every
\* endpoint the literal scanner found in it is stored and linked to that row, and
\* every later document of the batch has been processed and has its row.
C7_SyntaxFailureDoesNotStopBatch ==
    (done.kind = "extract" /\ pc \in {"extracted", "aborted"}) =>
        \A i \in 1..Len(corpus) :
            ~corpus[i].syntax_ok =>
                /\ \E k \in RowsOf(recipes, i) :
                      /\ recipes[k].parse_status = STATUS_ERROR
                      /\ recipes[k].parse_error = SYNTAX_ERROR_PREFIX \o corpus[i].syntax_msg
                      /\ LET hits == LiteralHits(decode_html_entities(corpus[i].text))
                         IN  \A h \in 1..Len(hits) : HitStored(hits[h], recipes[k].id)
                /\ \A j \in (i + 1)..Len(corpus) : RowsOf(recipes, j) # {}

\* analysis of the i-th document returns, after a parse failure or without finding a
\* class with a recognized base
NoMetadataDoc(i) ==
    /\ parse_recipe_file(corpus[i]).outcome = "return"
    /\ ~corpus[i].syntax_ok \/ _find_recipe_class(corpus[i].body) = 0

AllNull(m) ==
    /\ m.title = NULL /\ m.author = NULL /\ m.description = NULL /\ m.language = NULL
    /\ m.publication_type = NULL /\ m.needs_subscription = NULL /\ m.class_name = NULL

\* C8 as stated: after a parse failure or without a recognized class, every
\* metadata field is null in the metadata analysis returns and in the recipe row
\* persisted for the document.
C8_NoClassMeansAllNull ==
    \A i \in 1..Len(corpus) :
        NoMetadataDoc(i) =>
            /\ AllNull(parse_recipe_file(corpus[i]).meta)
            /\ \A k \in RowsOf(recipes, i) : AllNull(recipes[k])

\* C8 amended: after a parse failure or without a recognized class, every metadata
\* field is null in the metadata analysis returns; in the persisted recipe row the
\* title is the document's file name stem and the other six fields are null.
C8_NoClassMeansNullButStemTitle ==
    \A i \in 1..Len(corpus) :
        NoMetadataDoc(i) =>
            /\ AllNull(parse_recipe_file(corpus[i]).meta)
            /\ \A k \in RowsOf(recipes, i) :
                  /\ recipes[k].title = corpus[i].stem
                  /\ AllNull([recipes[k] EXCEPT !.title = NULL])

\* a committed pass over a document that fails to parse and a document that has
\* module-level assignments but no recipe class: both rows are stored
C8_Witness ==
    /\ pc = "extracted" /\ Len(corpus) = 2
    /\ ~corpus[1].syntax_ok /\ NoMetadataDoc(1) /\ RowsOf(recipes, 1) # {}
    /\ corpus[2].syntax_ok /\ corpus[2].body # <<>> /\ NoMetadataDoc(2)
    /\ \E k \in RowsOf(recipes, 2) : recipes[k].title = corpus[2].stem

----------------------------------------------------------------------------
(* Claims about the fetch pass and about crashes, under Spec *)

InFetch == done.kind \in {"rss", "recipe"} /\ pc \in {"rss", "recipe", "fetched"}

\* the Run rows the running fetch pass has recorded
NewRuns == SubSeq(runs, Len(done.start_news.runs) + 1, Len(runs))

\* the try blocks of the running pass for a recipe that ended in the except clause
Failures(uid) == SelectSeq(done.log, LAMBDA e : e.recipe_uid = uid /\ e.exc # NoExc)

\* the feeds of a recipe in the feed map the rss pass started from
FeedsOf(uid) ==
    LET m == _load_feed_endpoints(done.start)
    IN  m[CHOOSE i \in 1..Len(m) : m[i].recipe_uid = uid].feeds

\* C9: a fetch pass is never ended by a failure of the engine or of a feed: the
\* recipes it has finished are the selected recipes in order, each with exactly one
\* Run row; a recipe with a failure has status "error" and the error text
\* "type: message" of the failure, any other has status "ok" and no error; in rss
\* mode every feed of a finished recipe was tried; and when the pass ends every
\* selected recipe is finished.
C9_FetchFailuresAreIsolated ==
    /\ done.kind \in {"rss", "recipe"} => pc # "aborted"
    /\ InFetch =>
          /\ Len(NewRuns) = Len(done.uids)
          /\ Len(done.uids) <= Len(Selected)
          /\ pc = "fetched" => Len(done.uids) = Len(Selected)
          /\ \A k \in 1..Len(done.uids) :
                /\ done.uids[k] = Selected[k]
                /\ NewRuns[k].recipe_uid = done.uids[k]
                /\ IF Failures(done.uids[k]) # <<>>
                   THEN /\ NewRuns[k].status = STATUS_ERROR
                        /\ LET f == Failures(done.uids[k])
                           IN  NewRuns[k].error = ErrorText(f[Len(f)].exc)
                   ELSE /\ NewRuns[k].status = STATUS_OK
                        /\ NewRuns[k].error = NULL
                /\ done.kind = "rss" =>
                      Len(SelectSeq(done.log, LAMBDA e : e.recipe_uid = done.uids[k]))
                         = Len(FeedsOf(done.uids[k]))

\* an rss pass that has ended: the first feed of the first recipe failed, its second
\* feed gave articles, and the second recipe ran without error
C9_Witness ==
    /\ pc = "fetched" /\ done.kind = "rss" /\ Len(done.uids) = 2 /\ Len(NewRuns) = 2
    /\ done.log[1].exc # NoExc /\ done.log[2].exc = NoExc
    /\ done.log[2].recipe_uid = done.log[1].recipe_uid
    /\ NewRuns[1].status = STATUS_ERROR /\ NewRuns[1].article_count > 0
    /\ NewRuns[2].status = STATUS_OK

\* C10 as stated: after a crash during an extraction pass or a fetch pass the
\* durable store holds all writes of every recipe the pass had fully processed, and
\* nothing of the recipe in flight.
C10_CrashLosesOnlyRecipeInFlight ==
    pc = "crashed" =>
        /\ done.kind = "extract" => sources_durable = done.boundary
        /\ done.kind \in {"rss", "recipe"} => news_durable = done.boundary

\* C10 amended: after a crash during a fetch pass news.db holds all writes of every
\* recipe the pass had fully processed and nothing of the recipe in flight; after a
\* crash during an extraction pass sources.db is as the pass found it, the writes of
\* the recipes it had fully processed lost with those of the recipe in flight; an
\* extraction pass that ends leaves all its writes durable.
C10_CrashLosesUncommittedWrites ==
    /\ (pc = "crashed" /\ done.kind \in {"rss", "recipe"}) =>
          /\ news_durable = done.boundary
          /\ sources_durable = done.start
    /\ (pc = "crashed" /\ done.kind = "extract") =>
          /\ sources_durable = done.start
          /\ news_durable = done.start_news
    /\ pc = "extracted" => sources_durable = done.boundary

\* a fetch pass killed while a recipe was in flight with uncommitted writes, after
\* another recipe was finished with articles
C10_Witness ==
    /\ pc = "crashed" /\ done.kind = "rss" /\ Len(done.uids) = 1
    /\ lastOp.in_flight /\ lastOp.lost
    /\ Len(news_durable.articles) > 0 /\ Len(news_durable.runs) = 1

----------------------------------------------------------------------------
(* Claims about the processing order, under Spec *)

\* t is in ascending order of recipe_uid, without repeats
Ascending(t) == \A i, j \in 1..Len(t) : i < j => TextLess(t[i], t[j])

\* the recipes the running extraction pass has upserted, in upsert order
Upserted == done.uids \o (IF cur # NoCur THEN <<cur.recipe_uid>> ELSE <<>>)

\* the recipe_uid of the Run rows the running fetch pass has appended, in row order
RunOrder == [k \in 1..Len(NewRuns) |-> NewRuns[k].recipe_uid]

\* C11 as stated: in every pass the recipes are processed in ascending order of
\* recipe_uid: the recipe upserts of an extraction pass and the Run rows of a fetch
\* pass are in that order.
C11_AscendingUidOrder ==
    /\ done.kind = "extract" => Ascending(Upserted)
    /\ done.kind \in {"rss", "recipe"} => Ascending(RunOrder)

\* C11 amended: an extraction pass upserts the recipes in ascending order of their
\* file names (the k-th upsert is for the k-th file of the sorted directory
\* listing), a fetch pass appends its Run rows in ascending order of recipe_uid;
\* either order is fixed by the inputs, and a fetch pass handles one recipe at a
\* time: a Run is finished before the next one is started.
C11_FileOrderThenUidOrder ==
    /\ done.kind = "extract" =>
          /\ Len(Upserted) <= Len(corpus)
          /\ \A k \in 1..Len(Upserted) : Upserted[k] = build_recipe_uid(corpus[k].stem)
          /\ \A i, j \in 1..Len(corpus) :
                i < j => PathLess(corpus[i].stem, corpus[j].stem)
    /\ done.kind \in {"rss", "recipe"} =>
          /\ Ascending(RunOrder)
          /\ \A k \in 1..(Len(NewRuns) - 1) :
                NewRuns[k].finished_at < NewRuns[k + 1].started_at

\* a fetch pass that has ended with two Run rows, over a directory whose file name
\* order is the reverse of the recipe_uid order
C11_Witness ==
    /\ pc = "fetched" /\ Len(corpus) = 2 /\ Len(NewRuns) = 2
    /\ RunOrder[1] = build_recipe_uid(corpus[2].stem)
    /\ RunOrder[2] = build_recipe_uid(corpus[1].stem)

----------------------------------------------------------------------------
(* SpecCall: one call of one function of utils.py, recipe_parser.py or        *)
(* rss_fallback.py, on arguments drawn from the sets below                    *)

ClassifyUrls ==
  {
    <<"h","t","t","p",":","/","/","e","/","a">>,
    <<"h","t","t","p",":","/","/","e","/","r","s","s">>,
    <<"h","t","t","p",":","/","/","e","/","a","p","i","/">>,
    <<"h","t","t","p",":","/","/","e","/","a","p","i","/","x",".","x","m","l">>,
    <<"H","T","T","P",":","/","/","E","/","A",".","A","T","O","M">>,
    <<"h","t","t","p",":","/","/","a","p","i",".","e","/","x",".","j","s","o","n">>,
    <<"h","t","t","p",":","/","/","e","/","f","e","e","d">> }

ClassifyAttrNames ==
  { NULL, <<>>,
    <<"u","r","l">>, <<"f","e","e","d","_","u","r","l">>,
    <<"F","e","e","d","U","R","L">> }

ClassifyCalls ==
    { [fn |-> "classify_url", url |-> u, source |-> s, attr_name |-> a] :
        u \in ClassifyUrls, s \in {NULL, SRC_FEEDS, SRC_LITERAL, SRC_ATTR},
        a \in ClassifyAttrNames }

NormalizeRaws ==
  {
    <<"h","t","t","p",":","/","/","e","/","a">>,
    <<" ","'","h","t","t","p",":","/","/","e","/","a","'",")","."," ">>,
    <<"f","e","e","d",":","/","/","x",".","c","o","m","/","r","s","s">>,
    <<"\"","f","e","e","d",":","/","/","e","/","r","\"",";">>, <<")">>,
    <<")",".",",",";">>, <<"'","\"">>, <<" ">>, <<>>, <<"'",")"," ","'">>,
    <<"\t","h","t","t","p",":","/","/","e","/","a",">","\n">>,
    <<"f","e","e","d",":","/","/">>,
    <<"'"," ","h","t","t","p",":","/","/","e","/","a","'">>,
    <<"\""," ","'","h","t","t","p",":","/","/","e","/","a">> }

NormalizeCalls == { [fn |-> "normalize_url", raw |-> r] : r \in NormalizeRaws }

\* class bodies for _extract_class_assignments: at most one plain assignment to
\* feeds, then an augmented assignment to it
AugFirsts ==
  { ListNode(<<Constant(VStr(<<"h","t","t","p",":","/","/","e","/","1">>))>>),
    TupleNode(<<Constant(VStr(<<"h","t","t","p",":","/","/","e","/","1">>))>>),
    Constant(VStr(<<"a">>)), Constant(VInt(<<"1">>)) }

AugIncrements ==
  { ListNode(<<Constant(VStr(<<"h","t","t","p",":","/","/","e","/","2">>))>>),
    TupleNode(<<Constant(VStr(<<"h","t","t","p",":","/","/","e","/","2">>))>>),
    Constant(VStr(<<"b">>)), Constant(VInt(<<"2">>)), Name(<<"z">>) }

AugBodies ==
    { <<AugAssign(Name(A_FEEDS), op, v)>> : op \in {"Add", "Sub"}, v \in AugIncrements }
    \cup { <<Assign(<<Name(A_FEEDS)>>, f), AugAssign(Name(A_FEEDS), op, v)>> : op \in {"Add", "Sub"}, f \in AugFirsts, v \in AugIncrements }

ExtractCalls ==
    { [fn |-> "_extract_class_assignments", node |-> ClassDef(<<"A">>, <<Name(<<"B","a","s","i","c","N","e","w","s","R","e","c","i","p","e">>)>>, b), constants |-> <<>>] : b \in AugBodies }

\* elements of a feeds value: bare URLs (str, bytes), bare texts that normalize to
\* nothing, (title, URL) pairs as tuples and lists, pairs with a byte-string or a
\* number in either place, sequences of other lengths, a number
FeedsElements ==
  { VStr(<<"h","t","t","p",":","/","/","e","/","a",".","r","s","s">>), VBytes(<<"f","e","e","d",":","/","/","e","/","b">>), VStr(<<" ">>), VStr(<<")">>),
    VTuple(<<VStr(<<"T">>), VStr(<<"h","t","t","p",":","/","/","e","/","a",".","r","s","s">>)>>),
    VList(<<VStr(<<"T">>), VStr(<<"f","e","e","d",":","/","/","e","/","b">>)>>),
    VTuple(<<VBytes(<<"T", BadByte>>), VBytes(<<"h","t","t","p",":","/","/","e","/","a",".","r","s","s">>)>>),
    VTuple(<<VInt(<<"5">>), VStr(<<"h","t","t","p",":","/","/","e","/","a",".","r","s","s">>)>>),
    VTuple(<<VStr(<<"T">>), VInt(<<"5">>)>>),
    VTuple(<<VStr(<<"T">>), VStr(<<"'", "'">>)>>),
    VTuple(<<VStr(<<"T">>), VStr(<<"h","t","t","p",":","/","/","e","/","a",".","r","s","s">>), VStr(<<"x">>)>>),
    VTuple(<<VStr(<<"h","t","t","p",":","/","/","e","/","a",".","r","s","s">>)>>), VTuple(<<>>), VInt(<<"7">>) }

MaxFeedsLen == 2

FeedsValues ==
    { VNone, VStr(<<"h","t","t","p",":","/","/","e","/","a",".","r","s","s">>), VInt(<<"7">>) }
    \cup UNION { { VList(s), VTuple(s) } : s \in UNION { [1..n -> FeedsElements] : n \in 0..MaxFeedsLen } }

FeedsCalls == { [fn |-> "_feeds_to_endpoints", feeds |-> v] : v \in FeedsValues }

\* a well-formed document that is no feed, and an RSS document without a channel
HtmlPage == [wellformed |-> TRUE, root |-> Element(<<"h","t","m","l">>, NULL, <<>>, <<Leaf(<<"t","i","t","l","e">>, <<"N">>)>>)]
RssNoChannel == [wellformed |-> TRUE, root |-> Element(RSS_ROOT, NULL, <<>>, <<Leaf(<<"t","i","t","l","e">>, <<"N">>)>>)]

\* an Atom document whose elements are in a default namespace (xmlns="a"): a feed
\* title and two entries
AtomDefaultNs ==
    [wellformed |-> TRUE,
     root |-> Element(<<"{","a","}","f","e","e","d">>, NULL, <<>>,
        <<Leaf(<<"{","a","}","t","i","t","l","e">>, <<"N">>),
          Element(<<"{","a","}","e","n","t","r","y">>, NULL, <<>>, <<Leaf(<<"{","a","}","t","i","t","l","e">>, <<"c">>)>>),
          Element(<<"{","a","}","e","n","t","r","y">>, NULL, <<>>, <<Leaf(<<"{","a","}","t","i","t","l","e">>, <<"d">>)>>)>>)]

\* an RSS document whose elements carry a namespace prefix: one item
RssPrefixed ==
    [wellformed |-> TRUE,
     root |-> Element(<<"{","r","}","r","s","s">>, NULL, <<>>,
        <<Element(<<"{","r","}","c","h","a","n","n","e","l">>, NULL, <<>>,
            <<Leaf(<<"{","r","}","t","i","t","l","e">>, <<"N">>),
              Element(<<"{","r","}","i","t","e","m">>, NULL, <<>>, <<Leaf(<<"{","r","}","t","i","t","l","e">>, <<"a">>)>>)>>)>>)]

ParseFeedCalls == { [fn |-> "parse_feed", xml_bytes |-> p] : p \in {Malformed, HtmlPage, RssNoChannel, RssTwoItems, AtomOneEntry, AtomDefaultNs, RssPrefixed} }

\* the document  class A(BasicNewsRecipe): / title=T / feeds=[(F, U)]  with the
\* two assignments in either order
RecipeDocText(first, second) == <<"c","l","a","s","s"," ","A","(","B","a","s","i","c","N","e","w","s","R","e","c","i","p","e",")",":","\n">> \o <<" ">> \o first \o <<"\n", " ">> \o second \o <<"\n">>

TitleLine(t) == <<"t","i","t","l","e","=">> \o PyRepr(VStr(t))
FeedsLine(f, u) == <<"f","e","e","d","s","=","[","(">> \o PyRepr(VStr(f)) \o <<",">> \o PyRepr(VStr(u)) \o <<")", "]">>
TitleStmt(t) == Assign(<<Name(A_TITLE)>>, Constant(VStr(t)))
FeedsStmt(f, u) == Assign(<<Name(A_FEEDS)>>, ListNode(<<TupleNode(<<Constant(VStr(f)), Constant(VStr(u))>>)>>))

RecipeDoc(t, f, u, title_first) ==
    [stem |-> <<"a">>,
     text |-> IF title_first THEN RecipeDocText(TitleLine(t), FeedsLine(f, u)) ELSE RecipeDocText(FeedsLine(f, u), TitleLine(t)),
     syntax_ok |-> TRUE, syntax_msg |-> <<>>,
     body |-> <<ClassDef(<<"A">>, <<Name(<<"B","a","s","i","c","N","e","w","s","R","e","c","i","p","e">>)>>, IF title_first THEN <<TitleStmt(t), FeedsStmt(f, u)>> ELSE <<FeedsStmt(f, u), TitleStmt(t)>>)>>]

DocTitles == { <<"E","x","a","m","p","l","e">>, <<"E","x">>, <<"R","&","a","m","p",";","D">> }
DocFeedTitles == { <<"T","e","c","h">>, <<"A","&","B">> }
DocFeedUrls == { <<"h","t","t","p",":","/","/","e","x",".","c","o","m","/","t","e","c","h",".","r","s","s">>, <<"f","e","e","d",":","/","/","e","x",".","c","o","m","/","t",".","r","s","s",")",".">>, <<"h","t","t","p",":","/","/","e","x",".","c","o","m","/","r","s","s","?","c","a","t","=","1","&","r","e","g","i","o","n","=","e","u">>, <<"h","t","t","p",":","/","/","e","x",".","c","o","m","/","a","?","x","=","1","&","y","=","2">> }

ParseRecipeCalls == { [fn |-> "parse_recipe_file", shape |-> "class_only", doc |-> RecipeDoc(t, f, u, o), title |-> t, feed_title |-> f, feed_url |-> u] : t \in DocTitles, f \in DocFeedTitles, u \in DocFeedUrls, o \in BOOLEAN }

\* documents with module-level constants named title, feeds and index_url (any
\* non-empty choice of them), followed by a recipe class that sets language and
\* assigns some of the same names again, to other values
A_INDEX_URL == <<"i","n","d","e","x","_","u","r","l">>
SEED_MODULE_URL == <<"h","t","t","p",":","/","/","e","/","m">>
SEED_CLASS_URL == <<"h","t","t","p",":","/","/","e","/","c">>
SEED_MODULE_FEED == <<"h","t","t","p",":","/","/","e","/","m",".","r","s","s">>
SEED_CLASS_FEED == <<"h","t","t","p",":","/","/","e","/","c",".","r","s","s">>

UrlLine(u) == <<"i","n","d","e","x","_","u","r","l","=">> \o PyRepr(VStr(u))
UrlStmt(u) == Assign(<<Name(A_INDEX_URL)>>, Constant(VStr(u)))
LanguageLine == <<"l","a","n","g","u","a","g","e","=","'","e","n","'">>
LanguageStmt == Assign(<<Name(A_LANGUAGE)>>, Constant(VStr(<<"e","n">>)))

SeedLine(n, in_class) ==
    IF n = "title" THEN TitleLine(IF in_class THEN <<"E","x">> ELSE <<"M">>)
    ELSE IF n = "feeds" THEN FeedsLine(IF in_class THEN <<"T">> ELSE <<"F">>, IF in_class THEN SEED_CLASS_FEED ELSE SEED_MODULE_FEED)
    ELSE UrlLine(IF in_class THEN SEED_CLASS_URL ELSE SEED_MODULE_URL)

SeedStmt(n, in_class) ==
    IF n = "title" THEN TitleStmt(IF in_class THEN <<"E","x">> ELSE <<"M">>)
    ELSE IF n = "feeds" THEN FeedsStmt(IF in_class THEN <<"T">> ELSE <<"F">>, IF in_class THEN SEED_CLASS_FEED ELSE SEED_MODULE_FEED)
    ELSE UrlStmt(IF in_class THEN SEED_CLASS_URL ELSE SEED_MODULE_URL)

SeedNames == <<"title", "feeds", "index_url">>

SeededDocOf(mod, cls) ==
    [stem |-> <<"a">>,
     text |-> Concat([i \in 1..Len(mod) |-> SeedLine(mod[i], FALSE) \o <<"\n">>])
              \o <<"c","l","a","s","s"," ","A","(","B","a","s","i","c","N","e","w","s","R","e","c","i","p","e",")",":","\n">> \o <<" ">> \o LanguageLine \o <<"\n">>
              \o Concat([i \in 1..Len(cls) |-> <<" ">> \o SeedLine(cls[i], TRUE) \o <<"\n">>]),
     syntax_ok |-> TRUE, syntax_msg |-> <<>>,
     body |-> [i \in 1..Len(mod) |-> SeedStmt(mod[i], FALSE)]
              \o <<ClassDef(<<"A">>, <<Name(<<"B","a","s","i","c","N","e","w","s","R","e","c","i","p","e">>)>>, <<LanguageStmt>> \o [i \in 1..Len(cls) |-> SeedStmt(cls[i], TRUE)])>>]

SeededDoc(M, R) == SeededDocOf(SelectSeq(SeedNames, LAMBDA n : n \in M), SelectSeq(SeedNames, LAMBDA n : n \in R))

SeededCalls == { [fn |-> "parse_recipe_file", shape |-> "seeded", doc |-> SeededDoc(c.module, c.class), module |-> c.module, class |-> c.class] : c \in { [module |-> M, class |-> R] : M \in SUBSET {"title", "feeds", "index_url"} \ {{}}, R \in SUBSET {"title", "feeds", "index_url"} } }

\* top-level statements for _collect_module_constants: assignments to x and y of
\* constants of every type, of references to x and y, of an unbound name, of sums,
\* with two targets, to an attribute; an annotated and an augmented assignment
ModuleValues ==
  { Constant(VStr(<<"a">>)), Constant(VBytes(<<"b">>)), Constant(VInt(<<"1">>)),
    Constant(VFloat(<<"1",".","5">>)), Constant(VOther(<<"E","l","l","i","p","s","i","s">>)),
    ListNode(<<Constant(VStr(<<"u">>))>>), TupleNode(<<Constant(VStr(<<"u">>))>>),
    Name(<<"x">>), Name(<<"y">>), Name(<<"z">>),
    BinOp("Add", Name(<<"x">>), Constant(VStr(<<"c">>))) }

ModuleStmts ==
    { Assign(<<Name(n)>>, v) : n \in { <<"x">>, <<"y">> }, v \in ModuleValues }
    \cup { Assign(<<Name(<<"x">>), Name(<<"y">>)>>, Constant(VStr(<<"a">>))),
           Assign(<<Attribute(Name(<<"o">>), <<"x">>)>>, Constant(VStr(<<"a">>))),
           AnnAssign(Name(<<"x">>), TRUE, Constant(VStr(<<"a">>))),
           AugAssign(Name(<<"x">>), "Add", Constant(VStr(<<"a">>))) }

MaxModuleLen == 2

\* class bodies for _extract_class_assignments: two of the statements above
RebindBodies == [1..2 -> ModuleStmts]

RebindCalls ==
    { [fn |-> "_extract_class_assignments", node |-> ClassDef(<<"A">>, <<Name(<<"B","a","s","i","c","N","e","w","s","R","e","c","i","p","e">>)>>, b), constants |-> <<>>] : b \in RebindBodies }

CollectCalls == { [fn |-> "_collect_module_constants", body |-> b] : b \in UNION { [1..n -> ModuleStmts] : n \in 1..MaxModuleLen } }

CallInputs == ClassifyCalls \cup NormalizeCalls \cup ExtractCalls \cup FeedsCalls \cup ParseFeedCalls \cup ParseRecipeCalls \cup CollectCalls \cup SeededCalls \cup RebindCalls

CallInit ==
    /\ StoresEmpty
    /\ FoldIdle
    /\ pc = "call" /\ corpus = <<>> /\ idx = 0 /\ cur = NoCur /\ done = NoPass
    /\ lastOp = [op |-> "init"]
    /\ call \in CallInputs
    /\ result = NoCall

\* the call returns (or an exception leaves it): nothing else changes
Returns ==
    /\ pc' = "returned"
    /\ lastOp' = [op |-> "call"]
    /\ UNCHANGED <<recipes, endpoints, recipe_endpoints, sources_durable, runs, articles,
                   news_durable, clock, corpus, idx, cur, done, latest, foldNode, foldEnv,
                   foldResult, call>>

CallClassifyUrl ==
    /\ pc = "call" /\ call.fn = "classify_url"
    /\ result' = classify_url(call.url, call.source, call.attr_name)
    /\ Returns

CallNormalizeUrl ==
    /\ pc = "call" /\ call.fn = "normalize_url"
    /\ result' = normalize_url(call.raw)
    /\ Returns

CallExtractClassAssignments ==
    /\ pc = "call" /\ call.fn = "_extract_class_assignments"
    /\ result' = _extract_class_assignments(call.node, call.constants)
    /\ Returns

CallFeedsToEndpoints ==
    /\ pc = "call" /\ call.fn = "_feeds_to_endpoints"
    /\ result' = _feeds_to_endpoints(call.feeds)
    /\ Returns

CallParseFeed ==
    /\ pc = "call" /\ call.fn = "parse_feed"
    /\ result' = parse_feed(call.xml_bytes)
    /\ Returns

CallParseRecipeFile ==
    /\ pc = "call" /\ call.fn = "parse_recipe_file"
    /\ result' = parse_recipe_file(call.doc)
    /\ Returns

CallCollectModuleConstants ==
    /\ pc = "call" /\ call.fn = "_collect_module_constants"
    /\ result' = _collect_module_constants(call.body)
    /\ Returns

CallNext ==
    \/ CallClassifyUrl
    \/ CallNormalizeUrl
    \/ CallExtractClassAssignments
    \/ CallFeedsToEndpoints
    \/ CallParseFeed
    \/ CallParseRecipeFile
    \/ CallCollectModuleConstants

SpecCall == CallInit /\ [][CallNext]_vars

----------------------------------------------------------------------------
(* Claims about utils.py, under SpecCall *)

\* C12: classify_url applies its rules in fixed priority, the first match winning:
\* source feeds or an attribute name containing "feed" gives feed; else a feed
\* marker in the lowercased URL gives feed; else an api marker gives api; else html.
\* So a URL with a feed marker and an api marker is feed, and a feeds-sourced or
\* feed-named-attribute URL is feed whatever its text.
C12_ClassifyFirstMatchWins ==
    (pc = "returned" /\ call.fn = "classify_url") =>
        LET u == Lower(call.url)
            by_origin == \/ call.source = SRC_FEEDS
                         \/ /\ call.attr_name # NULL
                            /\ Contains(Lower(call.attr_name), <<"f","e","e","d">>)
            feed_marker == \E x \in FeedMarkers : Contains(u, x)
            api_marker == \E x \in ApiMarkers : Contains(u, x)
        IN  /\ by_origin => result = T_FEED
            /\ (~by_origin /\ feed_marker) => result = T_FEED
            /\ (~by_origin /\ ~feed_marker /\ api_marker) => result = T_API
            /\ (~by_origin /\ ~feed_marker /\ ~api_marker) => result = T_HTML

\* a literal URL with an api marker and a feed marker, classified feed
C12_Witness ==
    /\ pc = "returned" /\ call.fn = "classify_url"
    /\ call.source = SRC_LITERAL /\ call.attr_name = NULL
    /\ Contains(Lower(call.url), <<"/","a","p","i","/">>)
    /\ Contains(Lower(call.url), <<".","x","m","l">>)
    /\ result = T_FEED

\* what is left of raw after the trimming normalize_url does
Trimmed(raw) == RStrip(Strip(Strip(raw, Whitespace), QuoteChars), TrailingChars)

\* C13: normalize_url trims surrounding whitespace and quotes, strips the trailing
\* characters ) ] > . , ; quote and space, and rewrites a leading feed:// to http://;
\* when nothing is left after trimming it returns none, never an empty string.
C13_NormalizeNeverEmpty ==
    (pc = "returned" /\ call.fn = "normalize_url") =>
        /\ result # <<>>
        /\ result = IF Trimmed(call.raw) = <<>> THEN NULL
                    ELSE IF StartsWith(Trimmed(call.raw), FEED_SCHEME)
                    THEN HTTP_SCHEME \o SubSeq(Trimmed(call.raw), Len(FEED_SCHEME) + 1,
                                               Len(Trimmed(call.raw)))
                    ELSE Trimmed(call.raw)

----------------------------------------------------------------------------
(* Claims about the constant folder, under SpecFold *)

\* what a sub-node of the node under test folds to, in the same environment
Folded(n) == _eval_node(n, foldEnv)

\* C14: folding a binary addition gives the concatenation exactly when both
\* operands fold to strings, or both to byte-strings, or both to lists; for every
\* other operand pair (a string with a byte-string, tuples, numbers, an Unknown
\* operand) and for every operator other than addition the result is Unknown.
C14_AddFoldsSameTypes ==
    (pc = "folded" /\ foldNode.kind = "BinOp") =>
        IF /\ foldNode.op = "Add"
           /\ Folded(foldNode.left).t = Folded(foldNode.right).t
           /\ Folded(foldNode.left).t \in {"str", "bytes"}
        THEN foldResult = [Folded(foldNode.left) EXCEPT
                              !.s = @ \o Folded(foldNode.right).s]
        ELSE IF /\ foldNode.op = "Add"
                /\ Folded(foldNode.left).t = "list"
                /\ Folded(foldNode.right).t = "list"
        THEN foldResult = VList(Folded(foldNode.left).items \o Folded(foldNode.right).items)
        ELSE foldResult = VNone

\* C15: Unknown propagates upward: a tuple or list literal, an interpolated string
\* or a format call folds to Unknown whenever one of its elements, parts,
\* positional or keyword arguments folds to Unknown; a name absent from the
\* environment folds to Unknown; a call other than base.format(...) with a base
\* that folds to a string folds to Unknown.
C15_UnknownPropagates ==
    pc = "folded" =>
        /\ (/\ foldNode.kind \in {"Tuple", "List"}
            /\ \E i \in 1..Len(foldNode.elts) : Folded(foldNode.elts[i]) = VNone)
           => foldResult = VNone
        /\ (/\ foldNode.kind = "JoinedStr"
            /\ \E i \in 1..Len(foldNode.parts) : Folded(foldNode.parts[i]) = VNone)
           => foldResult = VNone
        /\ (foldNode.kind = "Name" /\ ~DictHas(foldEnv, foldNode.id)) => foldResult = VNone
        /\ foldNode.kind = "Call" =>
              IF /\ foldNode.func.kind = "Attribute"
                 /\ foldNode.func.attr = ATTR_FORMAT
                 /\ Folded(foldNode.func.obj).t = "str"
              THEN (\/ \E i \in 1..Len(foldNode.args) : Folded(foldNode.args[i]) = VNone
                    \/ \E i \in 1..Len(foldNode.keywords) :
                          Folded(foldNode.keywords[i].value) = VNone)
                   => foldResult = VNone
              ELSE foldResult = VNone

----------------------------------------------------------------------------
(* Claims about the walkers of recipe_parser.py, under SpecCall *)

\* the last statement of the class body of the call
LastStmt == call.node.body[Len(call.node.body)]

\* the attribute environment the last statement of the class body finds
EnvBefore == _extract_class_assignments([call.node EXCEPT !.body = SubSeq(@, 1, Len(@) - 1)], call.constants).d

\* C16: in the class body an augmented (+=) assignment to a name is applied exactly
\* when the value stored for the name and the folded increment are both sequences
\* (list or tuple), storing their concatenation; in every other case the statement
\* leaves the attribute environment unchanged.
C16_AugAssignOnSequences ==
    (pc = "returned" /\ call.fn = "_extract_class_assignments" /\ LastStmt.stmt = "AugAssign" /\ LastStmt.op = "Add") =>
        LET current == DictGet(EnvBefore, LastStmt.target.id)
            extra == _eval_node(LastStmt.value, DictMerge(call.constants, EnvBefore))
        IN  IF IsSeqVal(current) /\ IsSeqVal(extra)
            THEN result = Dict(DictSet(EnvBefore, LastStmt.target.id, [current EXCEPT !.items = @ \o extra.items]))
            ELSE result = Dict(EnvBefore)

\* what a hit says about its URL, type, origin, feed title and confidence
HitFacts(h) == [url |-> h.url, url_type |-> h.url_type, source |-> h.source, feed_title |-> h.feed_title, confidence |-> h.confidence]

\* the text a title or URL stands for: a byte-string decoded, a string as it is
Shown(v) == IF v.t = "bytes" THEN decode_replace(v.s) ELSE PyStr(v)

\* the hit facts C17 gives for one element of feeds
ElementFacts(entry) ==
    IF entry.t \in {"str", "bytes"}
    THEN IF Truthy(normalize_url(Shown(entry)))
         THEN <<[url |-> normalize_url(Shown(entry)), url_type |-> T_FEED, source |-> SRC_FEEDS, feed_title |-> NULL, confidence |-> 95]>>
         ELSE <<>>
    ELSE IF IsSeqVal(entry) /\ Len(entry.items) = 2
    THEN IF entry.items[2].t \in {"str", "bytes"} /\ Truthy(normalize_url(Shown(entry.items[2])))
         THEN <<[url |-> normalize_url(Shown(entry.items[2])), url_type |-> T_FEED, source |-> SRC_FEEDS, feed_title |-> Shown(entry.items[1]), confidence |-> 98]>>
         ELSE <<>>
    ELSE <<>>

\* C17: for a feeds value that is a list or tuple the feeds-list extractor yields,
\* in element order, one hit per bare URL string (source feeds, type feed, no feed
\* title, confidence 0.95) and one hit per two-element (title, URL) pair (source
\* feeds, type feed, feed title = title, confidence 0.98); every other element (a
\* sequence of any other length, a pair whose URL is not a string, a number) and
\* every element whose URL normalizes to empty yields no hit and no error.  A feeds
\* value that is not a list or tuple yields no hits.
C17_FeedsListHits ==
    (pc = "returned" /\ call.fn = "_feeds_to_endpoints") =>
        IF IsSeqVal(call.feeds)
        THEN [i \in 1..Len(result) |-> HitFacts(result[i])] = Concat([i \in 1..Len(call.feeds.items) |-> ElementFacts(call.feeds.items[i])])
        ELSE result = <<>>

----------------------------------------------------------------------------
(* Claims about rss_fallback.py, under SpecCall *)

\* C18: parse_feed never propagates a failure for a malformed feed payload: for a
\* payload that is not well-formed markup it returns an empty title and an empty
\* entry list, as it does for a well-formed payload with an unrecognized root
\* element.
C18_ParseFeedNeverFails ==
    (pc = "returned" /\ call.fn = "parse_feed") =>
        /\ result.exc = NoExc
        /\ (\/ ~call.xml_bytes.wellformed
            \/ _strip_ns(call.xml_bytes.root.tag) \notin {RSS_ROOT, ATOM_ROOT})
           => (result.title = NULL /\ result.entries = <<>>)

----------------------------------------------------------------------------
(* Claims about row identifiers, under SpecDb *)

\* every row of tbl is in tbl2 with the same id and the same key
KeepsIds(tbl, tbl2, key) == \A i \in 1..Len(tbl) : \E j \in 1..Len(tbl2) : tbl2[j].id = tbl[i].id /\ tbl2[j][key] = tbl[i][key]

\* in tbl two rows have the same id exactly when they have the same key
IdsMatchKeys(tbl, key) == \A i, j \in 1..Len(tbl) : (tbl[i].id = tbl[j].id) <=> (tbl[i][key] = tbl[j][key])

\* id is the id of the row of tbl whose key is k
IsIdOf(tbl, key, k, id) == \E i \in 1..Len(tbl) : tbl[i][key] = k /\ tbl[i].id = id

\* C19: upsert_endpoint on an already stored URL changes only that row's url_type
\* (to the new value) and leaves scheme, domain, path and query as first inserted;
\* the row identifier returned by upsert_endpoint for a URL, and by upsert_recipe
\* for a recipe_uid, is the same on every call for that key and differs between
\* different keys, so links created earlier keep pointing at the same rows: every
\* step keeps the id of every stored endpoint and recipe row, and a call returns
\* the id of the row that holds its key.
C19_UpsertKeepsRowIds ==
    [][ /\ (/\ lastOp'.op = "upsert_endpoint"
            /\ \E i \in 1..Len(endpoints) : endpoints[i].url = lastOp'.url)
           => /\ Len(endpoints') = Len(endpoints)
              /\ \A i \in 1..Len(endpoints) :
                    endpoints'[i] = IF endpoints[i].url = lastOp'.url
                                    THEN [endpoints[i] EXCEPT !.url_type = lastOp'.url_type]
                                    ELSE endpoints[i]
        /\ KeepsIds(endpoints, endpoints', "url")
        /\ KeepsIds(recipes, recipes', "recipe_uid")
        /\ IdsMatchKeys(endpoints', "url")
        /\ IdsMatchKeys(recipes', "recipe_uid")
        /\ lastOp'.op = "upsert_endpoint" => IsIdOf(endpoints', "url", lastOp'.url, lastOp'.id)
        /\ lastOp'.op = "upsert_recipe" => IsIdOf(recipes', "recipe_uid", lastOp'.payload.recipe_uid, lastOp'.id)
      ]_vars

\* a stored URL upserted again with another url_type, a link pointing at its row
C19_Witness ==
    /\ lastOp.op = "upsert_endpoint"
    /\ \E i \in 1..Len(lastOp.before) :
          /\ lastOp.before[i].url = lastOp.url
          /\ lastOp.before[i].url_type # lastOp.url_type
          /\ lastOp.before[i].id = lastOp.id
    /\ \E k \in 1..Len(recipe_endpoints) : recipe_endpoints[k].endpoint_id = lastOp.id

----------------------------------------------------------------------------
(* Claims about parse_recipe_file, under SpecCall *)

\* the hits of the result that come from the feeds attribute
FeedsHits == SelectSeq(result.hits, LAMBDA h : h.source = SRC_FEEDS)

\* C20: for a document whose recipe definition sets title to a string T and feeds
\* to a list holding one pair (F, U), analysis returns metadata.title = T and
\* exactly one hit with source feeds, and that hit has url = normalized U, type
\* feed, feed title = F and confidence 0.98 (T = Example, F = Tech,
\* U = http://ex.com/tech.rss included).
C20_TitleAndOneFeedHit ==
    (pc = "returned" /\ call.fn = "parse_recipe_file" /\ call.shape = "class_only") =>
        /\ result.outcome = "return"
        /\ result.meta.title = call.title
        /\ Len(FeedsHits) = 1
        /\ HitFacts(FeedsHits[1]) = [url |-> normalize_url(call.feed_url), url_type |-> T_FEED, source |-> SRC_FEEDS, feed_title |-> call.feed_title, confidence |-> 98]

----------------------------------------------------------------------------
(* Claims about the module constant collector, under SpecCall *)

\* the constants collected from the first k statements of the body of the call
Collected(k) == _collect_module_constants(SubSeq(call.body, 1, k))

\* statement s is a single-target assignment to a plain name
PlainAssign(s) == s.stmt = "Assign" /\ Len(s.targets) = 1 /\ s.targets[1].kind = "Name"

\* C21: the module constant collector folds each top-level single-target assignment
\* to a plain name, in document order, against only the constants collected from
\* earlier assignments: a reference to a name assigned later in the document folds
\* to Unknown, and only results that are strings, byte-strings, numbers, lists or
\* tuples enter the environment (Unknown results, multi-target and non-name targets
\* add nothing).  Statement by statement: the environment after statement k is the
\* environment before it, with the target bound to the fold of the right-hand side
\* in that earlier environment when the statement is such an assignment and the
\* fold has one of those types.
C21_CollectsInDocumentOrder ==
    (pc = "returned" /\ call.fn = "_collect_module_constants") =>
        /\ result = Collected(Len(call.body))
        /\ ~IsRaise(result)
        /\ \A k \in 1..Len(call.body) :
              LET s == call.body[k]
                  before == Collected(k - 1).d
              IN  Collected(k) =
                     IF /\ PlainAssign(s)
                        /\ _eval_node(s.value, before).t \in {"str", "bytes", "int", "float", "bool", "list", "tuple"}
                     THEN Dict(DictSet(before, s.targets[1].id, _eval_node(s.value, before)))
                     ELSE Dict(before)
        /\ \A k \in 1..Len(call.body) :
              (PlainAssign(call.body[k]) /\ call.body[k].value.kind = "Name" /\ ~DictHas(Collected(k - 1).d, call.body[k].value.id))
                 => ~DictHas(Collected(k).d, call.body[k].targets[1].id) \/ DictHas(Collected(k - 1).d, call.body[k].targets[1].id)

----------------------------------------------------------------------------
(* Claims about namespaces in rss_fallback.py, under SpecCall *)

\* the children of an element whose local name is name, in document order
LocalChildren(children, name) == SelectSeq(children, LAMBDA c : _strip_ns(c.tag) = name)

\* the item elements of an rss document (those of its first channel), the entry
\* elements of a feed document
FeedItems(root) ==
    IF _strip_ns(root.tag) = RSS_ROOT
    THEN IF LocalChildren(root.children, <<"c","h","a","n","n","e","l">>) = <<>> THEN <<>>
         ELSE LocalChildren(LocalChildren(root.children, <<"c","h","a","n","n","e","l">>)[1].children, <<"i","t","e","m">>)
    ELSE LocalChildren(root.children, <<"e","n","t","r","y">>)

\* C22: for a well-formed feed whose root element's local name is rss or feed,
\* parse_feed returns one entry per item (rss) or entry (feed) element, in document
\* order, whether or not the element tags are namespace-qualified; in particular a
\* feed document whose root and entry elements carry a default namespace yields
\* all of its entries.
C22_EntryPerItemAnyNamespace ==
    (/\ pc = "returned" /\ call.fn = "parse_feed" /\ call.xml_bytes.wellformed
     /\ _strip_ns(call.xml_bytes.root.tag) \in {RSS_ROOT, ATOM_ROOT}) =>
        /\ result.exc = NoExc
        /\ Len(result.entries) = Len(FeedItems(call.xml_bytes.root))
        /\ \A i \in 1..Len(result.entries) :
              result.entries[i].title = _find_child_text(FeedItems(call.xml_bytes.root)[i].children, <<"t","i","t","l","e">>)

----------------------------------------------------------------------------
(* Claims about the seeding of the attribute environment, under SpecCall *)

\* the attr hits of the result
AttrUrlHits == SelectSeq(result.hits, LAMBDA h : h.source = SRC_ATTR)

\* C23: the attribute environment built for the recipe class is seeded with the
\* module constants, and it is this final environment that is queried for the
\* metadata field names, the feeds field and url-named fields: a module-level
\* constant named title, feeds or with "url" in its name that the class body does
\* not reassign is reported as metadata / yields endpoint hits (and one the class
\* body reassigns is reported with the value the class gives it).
C23_ModuleConstantsSeedAttributes ==
    (pc = "returned" /\ call.fn = "parse_recipe_file" /\ call.shape = "seeded") =>
        /\ result.outcome = "return"
        /\ "title" \in call.module \cup call.class =>
              result.meta.title = IF "title" \in call.class THEN <<"E","x">> ELSE <<"M">>
        /\ "feeds" \in call.module \cup call.class =>
              /\ Len(FeedsHits) = 1
              /\ FeedsHits[1].url = IF "feeds" \in call.class THEN SEED_CLASS_FEED ELSE SEED_MODULE_FEED
              /\ FeedsHits[1].feed_title = IF "feeds" \in call.class THEN <<"T">> ELSE <<"F">>
        /\ "index_url" \in call.module \cup call.class =>
              /\ Len(AttrUrlHits) = 1
              /\ AttrUrlHits[1].context = A_INDEX_URL
              /\ AttrUrlHits[1].url = IF "index_url" \in call.class THEN SEED_CLASS_URL ELSE SEED_MODULE_URL

----------------------------------------------------------------------------
(* Claims about the url_type of feeds, under Spec *)

\* the URLs the recipes of the corpus list in their feeds attribute, as stored
ListedFeedUrls ==
    UNION { { normalize_url(parse_recipe_file(corpus[i]).hits[k].url) :
                k \in { j \in 1..Len(parse_recipe_file(corpus[i]).hits) : parse_recipe_file(corpus[i]).hits[j].source = SRC_FEEDS } } :
            i \in 1..Len(corpus) }

\* C24: after an extraction pass completes, every endpoint that some processed
\* recipe lists in its feeds attribute is stored with url_type feed, whatever other
\* discoveries of the same URL (literal scan, a url-named attribute, another
\* recipe) were upserted in that pass and in whatever order; so the rss fetch
\* stage, which selects endpoints with url_type feed, sees it.
C24_ListedFeedsStoredAsFeed ==
    pc = "extracted" =>
        \A u \in ListedFeedUrls :
            \E e \in 1..Len(endpoints) : endpoints[e].url = u /\ endpoints[e].url_type = T_FEED

----------------------------------------------------------------------------
(* Claims about the retrievals of an rss-mode fetch pass, under Spec *)

\* the URLs fetch_feed_xml was called with so far for the recipe in flight, in order
Retrieved == [i \in 1..(cur.fi - 1) |-> cur.feeds[i].url]

\* C25: in one rss-mode fetch pass each distinct feed URL linked to a recipe is
\* retrieved at most once for that recipe, however many recipe_endpoints rows
\* connect the recipe to that endpoint.
C25_FeedRetrievedOncePerRecipe ==
    pc = "rss" /\ cur # NoCur =>
        \A i, j \in 1..Len(Retrieved) : i # j => Retrieved[i] # Retrieved[j]

----------------------------------------------------------------------------
(* Claims about a second normalization, under SpecCall *)

\* C26: normalize_url is idempotent: for every input x for which normalize_url(x)
\* is a non-empty string u, normalize_url(u) = u; so the second normalization the
\* extraction pass applies to hit.url, which the parser already normalized, changes
\* nothing.
C26_NormalizeIdempotent ==
    (pc = "returned" /\ call.fn = "normalize_url" /\ result # NULL /\ result # <<>>) =>
        normalize_url(result) = result

----------------------------------------------------------------------------
(* Claims about article_count, under Spec *)

RECURSIVE Capped(_, _)
\* the insertions a fetch loop attempts over feeds offering these numbers of entries
Capped(offered, max_articles) ==
    IF offered = <<>> THEN 0
    ELSE (IF Head(offered) < max_articles THEN Head(offered) ELSE max_articles)
         + Capped(Tail(offered), max_articles)

RECURSIVE Attempted(_, _)
\* the insertions attempted by the try blocks of these log entries
Attempted(log, max_articles) ==
    IF log = <<>> THEN 0
    ELSE Capped(Head(log).offered, max_articles) + Attempted(Tail(log), max_articles)

\* the try blocks the running pass has run for the recipe in flight
TriedInFlight == SelectSeq(done.log, LAMBDA e : e.recipe_uid = cur.recipe_uid)

----------------------------------------------------------------------------
(* Claims about the committed news store, under Spec *)

----------------------------------------------------------------------------
(* Claims about rebinding, under SpecCall *)

\* the attributes extracted from the first k statements of the class body of the call
Extracted(k) == _extract_class_assignments([call.node EXCEPT !.body = SubSeq(@, 1, k)], call.constants)

\* every name bound in environment before is bound in environment after
KeepsNames(before, after) == \A i \in 1..Len(before) : DictHas(after, before[i].name)

\* the name statement s assigns to, NULL if it is not an assignment to a plain name
Target(s) ==
    IF PlainAssign(s) THEN s.targets[1].id
    ELSE IF s.stmt \in {"AnnAssign", "AugAssign"} /\ s.target.kind = "Name" THEN s.target.id
    ELSE NULL

\* C29: in the module constant collector and in the class attribute extractor a
\* binding is only ever replaced, never removed: every name bound before a
\* statement is bound after it, and when a name that already has a resolved value
\* is assigned again with an expression that folds to Unknown (or, at module level,
\* to a type that is not retained) the earlier value stays in the environment, so
\* the function returns an environment that holds it.
C29_BindingsNeverRemoved ==
    /\ (pc = "returned" /\ call.fn = "_collect_module_constants") =>
          /\ ~IsRaise(result)
          /\ \A k \in 1..Len(call.body) :
                LET s == call.body[k]
                    before == Collected(k - 1).d
                    after == Collected(k).d
                IN  /\ KeepsNames(before, after)
                    /\ (PlainAssign(s) /\ _eval_node(s.value, before).t \notin {"str", "bytes", "int", "float", "bool", "list", "tuple"})
                          => after = before
    /\ (pc = "returned" /\ call.fn = "_extract_class_assignments") =>
          /\ ~IsRaise(result)
          /\ \A k \in 1..Len(call.node.body) :
                LET s == call.node.body[k]
                    before == Extracted(k - 1).d
                    after == Extracted(k).d
                IN  /\ KeepsNames(before, after)
                    /\ (Target(s) # NULL /\ _eval_node(s.value, DictMerge(call.constants, before)) = VNone)
                          => after = before

====
